---- MODULE Spec2Model ----
(***************************************************************************)
(* State-machine model of the jquants-daily-report data layer:              *)
(*   - CacheManager  (src/src/jquants_report/data/cache.py)                 *)
(*   - DataFetcher   (src/src/jquants_report/data/fetcher.py)               *)
(*                                                                          *)
(* Time is an integer number of milliseconds read from one wall clock       *)
(* (datetime.now() / time.time()).  The database is the committed content   *)
(* of cache.db; every caller opens its own connection per operation, so a   *)
(* handler is a sequence of atomic database steps between which the clock   *)
(* and other callers may move.                                              *)
(***************************************************************************)
EXTENDS Integers, Sequences, FiniteSets, TLC

VARIABLES
    now,        \* the wall clock, in milliseconds
    entries,    \* table cache_entries: the set of its rows
    metadata,   \* table cache_metadata: key -> value
    files,      \* legacy files in cache_dir: stem -> [tbl, meta, readable]
    pc,         \* per caller: position inside the running handler
    loc,        \* per caller: local variables of the running handler
    res,        \* per caller: what the last finished handler returned and saw
    constructed, \* history: some CacheManager construction has completed
    commits,    \* history: the tables set() has committed, and the last row
    fetcher,    \* the DataFetcher: its client, _last_request_time, and the
                \* fetch_* method the callers exercise
    jquants     \* the JQuantsClient and its JQuantsAuthenticator: the tokens
                \* held and the client's _last_request_time

vars == <<now, entries, metadata, files, pc, loc, res, constructed, commits, fetcher, jquants>>

(***************************************************************************)
(* Bounds of the model                                                      *)
(***************************************************************************)
MaxHours == 3

Callers == {"c1", "c2"}
CacheKeys == {<<"k1">>, <<"k2">>}

\* A table (pandas DataFrame) is the sequence of its rows.  Row 0 is a row
\* without any column (the frame built from [{}]), other rows carry columns.
Tables == {<<>>, <<0>>, <<1>>, <<2>>}

\* Python's None and a present value.
None == [isNone |-> TRUE]
Some(x) == [isNone |-> FALSE, val |-> x]

\* ttl_hours arguments handed to set(); None selects default_ttl_hours.
TtlChoices == {None, Some(-1), Some(0), Some(1)}

Nil == [op |-> "none"]

\* A cache used without a DataFetcher.
NoFetcher ==
    [client |-> [kind |-> "none", methods |-> {}], last_request_time |-> 0,
     sleeps |-> 0, method |-> "none", args |-> [dates |-> <<>>, code |-> None]]

\* No JQuantsClient of its own is driven.
NoClient ==
    [id_token |-> None, refresh_token |-> None, last_request_time |-> 0,
     made |-> 0, ticks |-> 0]

\* History of the rows committed by set(); it is kept only in the
\* specifications whose properties read it.
NotTracked == [tracked |-> FALSE]
NoCommits == [tracked |-> TRUE, tables |-> {}, last |-> None]
Committed(h, row) ==
    IF h.tracked
    THEN [tracked |-> TRUE, tables |-> h.tables \cup {row.data.tbl}, last |-> Some(row)]
    ELSE h

(***************************************************************************)
(* Pure helpers                                                             *)
(***************************************************************************)
\* DataFrame.empty: true when any axis has length zero.
IsEmpty(df) == Len(df) = 0 \/ \A i \in 1..Len(df) : df[i] = 0

\* timedelta(hours=h) in clock units.
Hours(h) == h * 3600000

\* datetime.isoformat(): "<date>T<time to the second>" and, only when the
\* sub-second part is not zero, ".<fraction>".  The fixed-width date and time
\* fields are one symbol, the fraction a second one.
IsoFormat(t) ==
    IF t % 1000 = 0 THEN <<t \div 1000>> ELSE <<t \div 1000, t % 1000>>

\* datetime.fromisoformat()
FromIsoFormat(s) == s[1] * 1000 + (IF Len(s) >= 2 THEN s[2] ELSE 0)

\* SQLite's TEXT comparison a < b (BINARY collation): lexicographic, a proper
\* prefix sorts first.
RECURSIVE TextLess(_, _)
TextLess(a, b) ==
    IF b = <<>> THEN FALSE
    ELSE IF a = <<>> THEN TRUE
    ELSE IF Head(a) # Head(b) THEN Head(a) < Head(b)
    ELSE TextLess(Tail(a), Tail(b))

\* _serialize_dataframe / _deserialize_dataframe: a pickle blob; a blob whose
\* bytes were damaged (or written by an incompatible pandas) does not load.
SerializeDataframe(df) == [fmt |-> "pickle", tbl |-> df, intact |-> TRUE]
CanDeserialize(blob) == blob.fmt = "pickle" /\ blob.intact
DeserializeDataframe(blob) == blob.tbl

\* _sanitize_key: keys are stored as given.
SanitizeKey(key) == key

\* Maps (cache_metadata, the legacy files) as functions on the stored keys.
RemoveKey(f, k) == [x \in (DOMAIN f) \ {k} |-> f[x]]
PutKey(f, k, v) == [x \in (DOMAIN f) \cup {k} |-> IF x = k THEN v ELSE f[x]]
EmptyMap == [x \in {} |-> 0]

\* SELECT ... FROM cache_entries WHERE cache_key = ?
RowsFor(tbl, k) == {r \in tbl : r.cache_key = k}

\* _remove_entry: DELETE FROM cache_entries WHERE cache_key = ?
RemoveEntry(tbl, k) == tbl \ RowsFor(tbl, k)

\* INSERT OR REPLACE INTO cache_entries: cache_key is UNIQUE, so the rows in
\* conflict are deleted before the new row is inserted.
InsertOrReplace_KeepOld(tbl, row) == tbl \cup {row}
InsertOrReplace(tbl, row) == (tbl \ RowsFor(tbl, row.cache_key)) \cup {row}

\* The values bound to the INSERT of set().
EntryRow(k, df, created, expires) ==
    [cache_key |-> k,
     data |-> SerializeDataframe(df),
     row_count |-> Len(df),
     created_at |-> IsoFormat(created),
     expires_at |-> IsoFormat(expires)]

\* The expiry test of get(): datetime.now() >= expires_at.
IsExpiredAt_Strict(row, t) == t > FromIsoFormat(row.expires_at)
IsExpiredAt(row, t) == t >= FromIsoFormat(row.expires_at)

\* The guard of set(): "if data.empty: return".
SetSkips_LengthOnly(df) == Len(df) = 0
SetSkips(df) == IsEmpty(df)

\* The WHERE clause of cleanup_expired(): expires_at < ? on the TEXT column.
CleanupMatches(row, nowText) == TextLess(row.expires_at, nowText)

(***************************************************************************)
(* Initial state: CacheManager(cache_dir) has been constructed once on a    *)
(* fresh directory (schema created, nothing to migrate, migration marked    *)
(* completed); one caller uses it.                                          *)
(***************************************************************************)
Init ==
    /\ now = 0
    /\ entries = {}
    /\ metadata = [k \in {"schema_version", "migration_completed"} |->
                      IF k = "schema_version" THEN "1" ELSE "true"]
    /\ files = EmptyMap
    /\ pc = [c \in Callers |-> IF c = "c1" THEN "idle" ELSE "off"]
    /\ loc = [c \in Callers |-> Nil]
    /\ res = [c \in Callers |-> Nil]
    /\ constructed = TRUE
    /\ commits = NotTracked
    /\ fetcher = NoFetcher
    /\ jquants = NoClient

(***************************************************************************)
(* The clock                                                                *)
(***************************************************************************)
Tick ==
    /\ now + Hours(1) <= Hours(MaxHours)
    /\ now' = now + Hours(1)
    /\ UNCHANGED <<entries, metadata, files, pc, loc, res, constructed, commits, fetcher, jquants>>

(***************************************************************************)
(* CacheManager.get                                                         *)
(* res records, besides the return value, the row the SELECT fetched (seen) *)
(* and the rows stored under the key when the handler took its decision     *)
(* (pre) and when it returned (post).                                       *)
(***************************************************************************)
GetResult(key, ret, why, raised, seen, pre, post) ==
    [op |-> "get", key |-> key, ret |-> ret, why |-> why, at |-> now,
     raised |-> raised, seen |-> seen, pre |-> pre, post |-> post]

\* cache.py 162-179: SELECT the row; a missing row returns None at once.
GetSelect(c, key) ==
    /\ pc[c] = "idle"
    /\ LET k == SanitizeKey(key)
           rows == RowsFor(entries, k)
       IN IF rows = {}
          THEN /\ res' = [res EXCEPT ![c] = GetResult(key, None, "miss", FALSE, {}, {}, {})]
               /\ UNCHANGED <<pc, loc>>
          ELSE /\ \E row \in rows :
                    loc' = [loc EXCEPT ![c] = [op |-> "get", key |-> key, row |-> row]]
               /\ pc' = [pc EXCEPT ![c] = "get_row"]
               /\ UNCHANGED res
    /\ UNCHANGED <<now, entries, metadata, files, constructed, commits, fetcher, jquants>>

\* cache.py 193-197: a payload that fails to deserialize is logged, its row
\* removed and None returned; the exception does not leave get().
OnDecodeFailure_Propagates(tbl, k) == [entries |-> tbl, raised |-> TRUE]
OnDecodeFailure(tbl, k) == [entries |-> RemoveEntry(tbl, k), raised |-> FALSE]

\* cache.py 181-197: expiry check against datetime.now(), lazy deletion,
\* deserialization with eviction of an undecodable payload: the table left
\* in the database and what get() returns, for the fetched row at time t.
GetOutcome(tbl, k, row, t) ==
    IF IsExpiredAt(row, t)
    THEN [entries |-> RemoveEntry(tbl, k), ret |-> None,
          why |-> "expired", raised |-> FALSE]
    ELSE IF CanDeserialize(row.data)
    THEN [entries |-> tbl, ret |-> Some(DeserializeDataframe(row.data)),
          why |-> "hit", raised |-> FALSE]
    ELSE [entries |-> OnDecodeFailure(tbl, k).entries, ret |-> None,
          why |-> "undecodable", raised |-> OnDecodeFailure(tbl, k).raised]

GetReturn(c) ==
    /\ pc[c] = "get_row"
    /\ LET key == loc[c].key
           k == SanitizeKey(key)
           row == loc[c].row
           pre == RowsFor(entries, k)
           out == GetOutcome(entries, k, row, now)
       IN /\ entries' = out.entries
          /\ res' = [res EXCEPT ![c] =
                       GetResult(key, out.ret, out.why, out.raised, {row}, pre,
                                 RowsFor(out.entries, k))]
    /\ pc' = [pc EXCEPT ![c] = "idle"]
    /\ loc' = [loc EXCEPT ![c] = Nil]
    /\ UNCHANGED <<now, metadata, files, constructed, commits, fetcher, jquants>>

(***************************************************************************)
(* CacheManager.set                                                         *)
(***************************************************************************)
default_ttl_hours == 24

\* cache.py 207-215: the empty-table early return, the TTL default, and the
\* two timestamps taken from datetime.now().
SetBegin(c, key, df, ttl_hours) ==
    /\ pc[c] = "idle"
    /\ IF SetSkips(df)
       THEN /\ res' = [res EXCEPT ![c] =
                         [op |-> "set", key |-> key, data |-> df, written |-> FALSE,
                          pre |-> RowsFor(entries, SanitizeKey(key)),
                          post |-> RowsFor(entries, SanitizeKey(key))]]
            /\ UNCHANGED <<pc, loc>>
       ELSE LET ttl == IF ttl_hours # None THEN ttl_hours.val ELSE default_ttl_hours
                created_at == now
                expires_at == created_at + Hours(ttl)
            IN /\ pc' = [pc EXCEPT ![c] = "set_write"]
               /\ loc' = [loc EXCEPT ![c] = [op |-> "set", key |-> key, data |-> df,
                                             ttl |-> Hours(ttl),
                                             created_at |-> created_at,
                                             expires_at |-> expires_at]]
               /\ UNCHANGED res
    /\ UNCHANGED <<now, entries, metadata, files, constructed, commits, fetcher, jquants>>

\* cache.py 217-240: INSERT OR REPLACE and commit.
SetCommit(c) ==
    /\ pc[c] = "set_write"
    /\ LET l == loc[c]
           k == SanitizeKey(l.key)
           tbl == InsertOrReplace(entries, EntryRow(k, l.data, l.created_at, l.expires_at))
       IN /\ entries' = tbl
          /\ res' = [res EXCEPT ![c] =
                       [op |-> "set", key |-> l.key, data |-> l.data, written |-> TRUE,
                        at |-> l.created_at, ttl |-> l.ttl,
                        replaced |-> RowsFor(entries, k) # {},
                        post |-> RowsFor(tbl, k)]]
          /\ commits' = Committed(commits, EntryRow(k, l.data, l.created_at, l.expires_at))
    /\ pc' = [pc EXCEPT ![c] = "idle"]
    /\ loc' = [loc EXCEPT ![c] = Nil]
    /\ UNCHANGED <<now, metadata, files, constructed, fetcher, jquants>>

(***************************************************************************)
(* CacheManager.invalidate / clear_all / cleanup_expired                    *)
(***************************************************************************)
\* cache.py 254-265
Invalidate(c, key) ==
    /\ pc[c] = "idle"
    /\ entries' = RemoveEntry(entries, SanitizeKey(key))
    /\ res' = [res EXCEPT ![c] = [op |-> "invalidate", key |-> key]]
    /\ UNCHANGED <<now, metadata, files, pc, loc, constructed, commits, fetcher, jquants>>

\* cache.py 267-274
ClearAll(c) ==
    /\ pc[c] = "idle"
    /\ entries' = {}
    /\ res' = [res EXCEPT ![c] = [op |-> "clear_all"]]
    /\ UNCHANGED <<now, metadata, files, pc, loc, constructed, commits, fetcher, jquants>>

\* cache.py 296-308: now().isoformat() and SELECT COUNT(*) ... expires_at < ?
CleanupCount(c) ==
    /\ pc[c] = "idle"
    /\ LET nowText == IsoFormat(now)
           count == Cardinality({r \in entries : CleanupMatches(r, nowText)})
       IN loc' = [loc EXCEPT ![c] = [op |-> "cleanup", at |-> now, nowText |-> nowText,
                                     count |-> count]]
    /\ pc' = [pc EXCEPT ![c] = "cleanup_delete"]
    /\ UNCHANGED <<now, entries, metadata, files, res, constructed, commits, fetcher, jquants>>

\* cache.py 310-319: DELETE ... expires_at < ? and return the count.  res
\* records the rows present before the DELETE and the rows it removed.
CleanupDelete(c) ==
    /\ pc[c] = "cleanup_delete"
    /\ LET gone == {r \in entries : CleanupMatches(r, loc[c].nowText)}
       IN /\ entries' = entries \ gone
          /\ res' = [res EXCEPT ![c] = [op |-> "cleanup", ret |-> loc[c].count,
                                        at |-> loc[c].at, before |-> entries,
                                        removed |-> gone]]
    /\ pc' = [pc EXCEPT ![c] = "idle"]
    /\ loc' = [loc EXCEPT ![c] = Nil]
    /\ UNCHANGED <<now, metadata, files, constructed, commits, fetcher, jquants>>

(***************************************************************************)
(* CacheManager.__init__: schema creation and legacy-file migration         *)
(***************************************************************************)
\* Legacy files a directory may hold: <stem>.parquet with its table, and
\* <stem>.meta with the expiry (absent: NoMeta).  A pair that cannot be read
\* (damaged parquet, malformed meta) has readable = FALSE.
NoMeta == None
LegacyFiles ==
    [tbl : {<<>>, <<1>>}, meta : {NoMeta, Some(0), Some(Hours(1))},
     readable : BOOLEAN]

\* cache.py 399-408
MarkMigrationCompleted_Forgotten(md) == md
MarkMigrationCompleted(md) == PutKey(md, "migration_completed", "true")

\* cache.py 106-112: INSERT OR REPLACE of the schema version.
InitDatabase(md) == PutKey(md, "schema_version", "1")

\* cache.py 326-333: the one-time flag.
MigrationDone(md) ==
    "migration_completed" \in DOMAIN md /\ md["migration_completed"] = "true"

\* cache.py 384-397
DeleteOldFiles(fs, stem) == RemoveKey(fs, stem)

ConstructResult(l) ==
    [op |-> "construct", later |-> l.later, imported |-> l.imported,
     deleted |-> l.deleted]

\* cache.py 39-44 and 321-339: __init__ up to the glob of *.parquet.
ConstructBegin(c) ==
    /\ pc[c] \in {"new", "idle"}
    /\ LET md == InitDatabase(metadata)
           l0 == [op |-> "construct", later |-> constructed, imported |-> {},
                  deleted |-> {}, todo |-> DOMAIN files]
       IN IF MigrationDone(md)
          THEN /\ metadata' = md
               /\ pc' = [pc EXCEPT ![c] = "idle"]
               /\ loc' = [loc EXCEPT ![c] = Nil]
               /\ res' = [res EXCEPT ![c] = ConstructResult(l0)]
               /\ constructed' = TRUE
          ELSE IF DOMAIN files = {}
          THEN /\ metadata' = MarkMigrationCompleted(md)
               /\ pc' = [pc EXCEPT ![c] = "idle"]
               /\ loc' = [loc EXCEPT ![c] = Nil]
               /\ res' = [res EXCEPT ![c] = ConstructResult(l0)]
               /\ constructed' = TRUE
          ELSE /\ metadata' = md
               /\ pc' = [pc EXCEPT ![c] = "mig_loop"]
               /\ loc' = [loc EXCEPT ![c] = l0]
               /\ UNCHANGED <<res, constructed, commits, fetcher, jquants>>
    /\ UNCHANGED <<now, entries, files, commits, fetcher, jquants>>

\* cache.py 344-365: read one parquet/meta pair, skip (and delete) an expired
\* one; a pair that fails to read is left alone.
MigRead(c) ==
    /\ pc[c] = "mig_loop"
    /\ loc[c].todo # {}
    /\ \E stem \in loc[c].todo :
         LET l == [loc[c] EXCEPT !.todo = @ \ {stem}] IN
         IF stem \notin DOMAIN files \/ ~files[stem].readable
         THEN /\ loc' = [loc EXCEPT ![c] = l]
              /\ UNCHANGED <<pc, files>>
         ELSE LET f == files[stem]
                  expires_at == IF f.meta # NoMeta THEN f.meta.val ELSE now + Hours(24)
              IN IF now >= expires_at
                 THEN /\ files' = DeleteOldFiles(files, stem)
                      /\ loc' = [loc EXCEPT ![c] = [l EXCEPT !.deleted = @ \cup {stem}]]
                      /\ UNCHANGED pc
                 ELSE /\ pc' = [pc EXCEPT ![c] = "mig_ttl"]
                      /\ loc' = [loc EXCEPT ![c] =
                                   [op |-> "construct", later |-> l.later,
                                    imported |-> l.imported, deleted |-> l.deleted,
                                    todo |-> l.todo, stem |-> stem, df |-> f.tbl,
                                    expires_at |-> expires_at]]
                      /\ UNCHANGED files
    /\ UNCHANGED <<now, entries, metadata, res, constructed, commits, fetcher, jquants>>

\* cache.py 367-368: remaining TTL against a second reading of the clock.
MigTtl(c) ==
    /\ pc[c] = "mig_ttl"
    /\ pc' = [pc EXCEPT ![c] = "mig_set"]
    /\ loc' = [loc EXCEPT ![c] =
                 [op |-> "construct", later |-> loc[c].later,
                  imported |-> loc[c].imported, deleted |-> loc[c].deleted,
                  todo |-> loc[c].todo, stem |-> loc[c].stem, df |-> loc[c].df,
                  remaining |-> loc[c].expires_at - now]]
    /\ UNCHANGED <<now, entries, metadata, files, res, constructed, commits, fetcher, jquants>>

\* cache.py 370-375: self.set(key, df, ttl_hours=remaining_hours), then the
\* files are deleted.  set() is the code of lines 207-242: it returns
\* without writing an empty table, and a database write that fails
\* (db_ok = FALSE) is logged inside set(), which returns normally.
MigSet(c) ==
    /\ pc[c] = "mig_set"
    /\ \E db_ok \in BOOLEAN :
       LET l == loc[c]
           k == SanitizeKey(l.stem)
           created_at == now
           expires_at == created_at + l.remaining
           wrote == ~SetSkips(l.df) /\ db_ok
       IN /\ entries' = IF wrote
                        THEN InsertOrReplace(entries,
                                             EntryRow(k, l.df, created_at, expires_at))
                        ELSE entries
          /\ files' = DeleteOldFiles(files, l.stem)
          /\ loc' = [loc EXCEPT ![c] =
                       [op |-> "construct", later |-> l.later,
                        imported |-> IF wrote THEN l.imported \cup {l.stem}
                                     ELSE l.imported,
                        deleted |-> l.deleted \cup {l.stem}, todo |-> l.todo]]
          /\ commits' = IF wrote
                        THEN Committed(commits, EntryRow(k, l.df, created_at, expires_at))
                        ELSE commits
    /\ pc' = [pc EXCEPT ![c] = "mig_loop"]
    /\ UNCHANGED <<now, metadata, res, constructed, fetcher, jquants>>

\* cache.py 381-382: after the loop the migration is marked completed.
MigFinish(c) ==
    /\ pc[c] = "mig_loop"
    /\ loc[c].todo = {}
    /\ metadata' = MarkMigrationCompleted(metadata)
    /\ pc' = [pc EXCEPT ![c] = "idle"]
    /\ res' = [res EXCEPT ![c] = ConstructResult(loc[c])]
    /\ loc' = [loc EXCEPT ![c] = Nil]
    /\ constructed' = TRUE
    /\ UNCHANGED <<now, entries, files, commits, fetcher, jquants>>

\* The environment: a legacy-format file pair appears in the directory
\* (tests/test_cache.py 276-284 write one after the first construction).
DropFile(stem, f) ==
    /\ stem \notin DOMAIN files
    /\ files' = PutKey(files, stem, f)
    /\ UNCHANGED <<now, entries, metadata, pc, loc, res, constructed, commits, fetcher, jquants>>

(***************************************************************************)
(* Specification: one caller using the cache sequentially                   *)
(***************************************************************************)
Next ==
    \/ Tick
    \/ \E c \in Callers, key \in CacheKeys : GetSelect(c, key)
    \/ \E c \in Callers : GetReturn(c)
    \/ \E c \in Callers, key \in CacheKeys, df \in Tables, ttl \in TtlChoices :
          SetBegin(c, key, df, ttl)
    \/ \E c \in Callers : SetCommit(c)
    \/ \E c \in Callers, key \in CacheKeys : Invalidate(c, key)
    \/ \E c \in Callers : ClearAll(c)
    \/ \E c \in Callers : CleanupCount(c)
    \/ \E c \in Callers : CleanupDelete(c)

Spec == Init /\ [][Next]_vars

(***************************************************************************)
(* Specification: a directory left by the file-based cache, on which        *)
(* CacheManager is constructed (and constructed again)                      *)
(***************************************************************************)
Stems == {<<"k1">>, <<"k2">>}

InitMigrate ==
    /\ now = 0
    /\ entries = {}
    /\ metadata = EmptyMap
    /\ \E S \in SUBSET Stems : files \in [S -> LegacyFiles]
    /\ pc = [c \in Callers |-> IF c = "c1" THEN "new" ELSE "off"]
    /\ loc = [c \in Callers |-> Nil]
    /\ res = [c \in Callers |-> Nil]
    /\ constructed = FALSE
    /\ commits = NotTracked
    /\ fetcher = NoFetcher
    /\ jquants = NoClient

NextMigrate ==
    \/ Tick
    \/ \E c \in Callers : ConstructBegin(c)
    \/ \E c \in Callers : MigRead(c)
    \/ \E c \in Callers : MigTtl(c)
    \/ \E c \in Callers : MigSet(c)
    \/ \E c \in Callers : MigFinish(c)
    \/ \E stem \in Stems, f \in LegacyFiles : DropFile(stem, f)
    \/ \E c \in Callers, key \in Stems : Invalidate(c, key)
    \/ \E c \in Callers : ClearAll(c)

SpecMigrate == InitMigrate /\ [][NextMigrate]_vars

(***************************************************************************)
(* Specification: the cache with a payload that stops being readable        *)
(* (damaged bytes, or a pickle written by an incompatible pandas)           *)
(***************************************************************************)
Corrupt(key) ==
    /\ \E row \in RowsFor(entries, SanitizeKey(key)) :
          /\ row.data.intact
          /\ entries' = (entries \ {row}) \cup
                           {[row EXCEPT !.data = [@ EXCEPT !.intact = FALSE]]}
    /\ UNCHANGED <<now, metadata, files, pc, loc, res, constructed, commits, fetcher, jquants>>

NextFault ==
    \/ Tick
    \/ \E c \in Callers, key \in CacheKeys : GetSelect(c, key)
    \/ \E c \in Callers : GetReturn(c)
    \/ \E c \in Callers, key \in CacheKeys, df \in {<<>>, <<1>>}, ttl \in {None, Some(1)} :
          SetBegin(c, key, df, ttl)
    \/ \E c \in Callers : SetCommit(c)
    \/ \E key \in CacheKeys : Corrupt(key)

SpecFault == Init /\ [][NextFault]_vars

(***************************************************************************)
(* Specification: two callers racing with get and set on one key            *)
(***************************************************************************)
RaceKey == <<"k1">>

InitConc ==
    /\ now = 0
    /\ entries = {}
    /\ metadata = [k \in {"schema_version", "migration_completed"} |->
                      IF k = "schema_version" THEN "1" ELSE "true"]
    /\ files = EmptyMap
    /\ pc = [c \in Callers |-> "idle"]
    /\ loc = [c \in Callers |-> Nil]
    /\ res = [c \in Callers |-> Nil]
    /\ constructed = TRUE
    /\ commits = NoCommits
    /\ fetcher = NoFetcher
    /\ jquants = NoClient

NextConc ==
    \/ Tick
    \/ \E c \in Callers : GetSelect(c, RaceKey)
    \/ \E c \in Callers : GetReturn(c)
    \/ \E c \in Callers, df \in {<<1>>, <<2>>} : SetBegin(c, RaceKey, df, Some(1))
    \/ \E c \in Callers : SetCommit(c)

SpecConc == InitConc /\ [][NextConc]_vars

(***************************************************************************)
(* DataFetcher                                                              *)
(* One instance, its client and the cache of Init.  A fetch is three steps: *)
(* the cache lookup, _rate_limit, and the client call with the processing   *)
(* of its reply.                                                            *)
(***************************************************************************)
\* fetcher.py 27: MIN_REQUEST_INTERVAL = 1.0 second, in clock units.
MIN_REQUEST_INTERVAL == 1000

MaxFetchHours == 25
MaxSleeps == 1

\* The fetch_* methods: the first part of the cache key, how many dates and
\* whether an instrument code enter the key, the client method asked for,
\* whether a DataFrame reply is taken as it is, the dataset key looked up in
\* a dict reply, what any other reply becomes ("row": pd.DataFrame([response]),
\* "empty": pd.DataFrame()), whether cache.set is guarded by "not df.empty",
\* and the ttl_hours handed to cache.set.
FetchMethods ==
    { [name |-> "fetch_listed_info", prefix |-> "listed_info", dates |-> 0,
       code |-> "no", api |-> "get_listed_info", checksFrame |-> TRUE,
       dataKey |-> "info", other |-> "row", guarded |-> TRUE, ttl |-> 24],
      [name |-> "fetch_daily_quotes", prefix |-> "daily_quotes", dates |-> 1,
       code |-> "optional", api |-> "get_daily_quotes", checksFrame |-> TRUE,
       dataKey |-> "daily_quotes", other |-> "row", guarded |-> TRUE, ttl |-> 24],
      [name |-> "fetch_indices", prefix |-> "indices", dates |-> 1,
       code |-> "no", api |-> "get_indices", checksFrame |-> TRUE,
       dataKey |-> "indices", other |-> "row", guarded |-> TRUE, ttl |-> 24],
      [name |-> "fetch_topix", prefix |-> "topix", dates |-> 1,
       code |-> "no", api |-> "get_topix", checksFrame |-> FALSE,
       dataKey |-> "topix", other |-> "row", guarded |-> FALSE, ttl |-> 24],
      [name |-> "fetch_trades_spec", prefix |-> "trades_spec", dates |-> 1,
       code |-> "no", api |-> "get_trades_spec", checksFrame |-> FALSE,
       dataKey |-> "trades_spec", other |-> "row", guarded |-> FALSE, ttl |-> 24],
      [name |-> "fetch_margin_interest", prefix |-> "margin_interest", dates |-> 1,
       code |-> "no", api |-> "get_weekly_margin_trading", checksFrame |-> TRUE,
       dataKey |-> "weekly_margin_interest", other |-> "row", guarded |-> TRUE,
       ttl |-> 24],
      [name |-> "fetch_short_selling", prefix |-> "short_selling", dates |-> 1,
       code |-> "no", api |-> "get_short_selling", checksFrame |-> TRUE,
       dataKey |-> "short_selling", other |-> "row", guarded |-> TRUE, ttl |-> 24],
      [name |-> "fetch_statements", prefix |-> "statements", dates |-> 0,
       code |-> "required", api |-> "get_statements", checksFrame |-> FALSE,
       dataKey |-> "statements", other |-> "row", guarded |-> FALSE, ttl |-> 24],
      [name |-> "fetch_announcement", prefix |-> "announcement", dates |-> 0,
       code |-> "no", api |-> "get_announcement", checksFrame |-> FALSE,
       dataKey |-> "announcement", other |-> "row", guarded |-> FALSE, ttl |-> 6],
      [name |-> "fetch_date_range_quotes", prefix |-> "quotes_range", dates |-> 2,
       code |-> "optional", api |-> "get_daily_quotes", checksFrame |-> TRUE,
       dataKey |-> "daily_quotes", other |-> "empty", guarded |-> TRUE, ttl |-> 24] }

MethodNamed(name) == CHOOSE m \in FetchMethods : m.name = name

\* The arguments a caller passes: the dates (strftime("%Y-%m-%d")) and the
\* instrument code, which may be None or the empty string.
FetchDates == <<"2024-01-15", "2024-01-19">>
FetchArgs(m) ==
    [dates : {SubSeq(FetchDates, 1, m.dates)},
     code : IF m.code = "optional" THEN {None, Some(""), Some("7203")}
            ELSE IF m.code = "required" THEN {Some("7203")}
            ELSE {None}]

\* The cache key, as the parts the f-string joins with "_"; an optional code
\* is appended only "if code", a required one always.
FetchCacheKey(m, args) ==
    <<m.prefix>> \o args.dates \o
    (IF m.code = "required" THEN <<args.code.val>>
     ELSE IF m.code = "optional" /\ args.code # None /\ args.code.val # ""
     THEN <<args.code.val>>
     ELSE <<>>)

\* The public methods of JQuantsClient.
JQuantsClientMethods ==
    {"get_listed_info", "get_listed_sections", "get_daily_quotes", "get_prices_am",
     "get_financial_statements", "get_financial_announcement", "get_dividend_info",
     "get_indices", "get_topix_composition", "get_trades_by_investor_type",
     "get_short_selling", "get_margin_trading", "get_market_breakdown",
     "get_weekly_margin_trading", "get_index_option", "get_index_futures",
     "get_tdnet_disclosure", "get_refresh_token", "clear_cache"}

\* The clients a DataFetcher is built with: JQuantsClient (main.py), and the
\* Mock of the tests, which has every method and returns what the test set.
Clients ==
    { [kind |-> "JQuantsClient", methods |-> JQuantsClientMethods],
      [kind |-> "Mock", methods |-> {m.api : m \in FetchMethods}] }

\* What a call of a client method can do.  JQuantsClient returns a DataFrame
\* (_to_dataframe) or raises; a Mock may also return None, a dict with or
\* without the dataset key (or no key at all) whose value is a list of rows
\* or something pd.DataFrame rejects, a list of rows, or a scalar.
Raising == {[kind |-> "raise", exc |-> e] : e \in {"APIError", "AuthenticationError"}}
FrameReplies == {[kind |-> "frame", rows |-> t] : t \in {<<>>, <<1>>}}
MockReplies(m) ==
    {[kind |-> "none"], [kind |-> "scalar"]}
    \cup {[kind |-> "list", rows |-> t] : t \in {<<>>, <<1>>}}
    \cup {[kind |-> "dict", key |-> m.dataKey, ok |-> TRUE, rows |-> t] : t \in {<<>>, <<1>>}}
    \cup {[kind |-> "dict", key |-> m.dataKey, ok |-> FALSE, rows |-> <<>>],
          [kind |-> "dict", key |-> "other", ok |-> TRUE, rows |-> <<1>>],
          [kind |-> "dict", key |-> "", ok |-> TRUE, rows |-> <<>>]}
Replies(client, m) ==
    IF client.kind = "JQuantsClient" THEN FrameReplies \cup Raising
    ELSE FrameReplies \cup Raising \cup MockReplies(m)
NoReply == [kind |-> "nocall"]

\* fetcher.py 49-72, after _rate_limit: getattr on the client and the call.
\* A missing method (AttributeError) and any exception of the call are logged
\* and None is returned.  calls counts the invocations of the client method.
MakeApiCall_Uncaught(client, api, reply) ==
    IF api \notin client.methods
    THEN [response |-> None, calls |-> 0, raised |-> TRUE]
    ELSE IF reply.kind = "raise"
    THEN [response |-> None, calls |-> 1, raised |-> TRUE]
    ELSE IF reply.kind = "none"
    THEN [response |-> None, calls |-> 1, raised |-> FALSE]
    ELSE [response |-> Some(reply), calls |-> 1, raised |-> FALSE]
MakeApiCall(client, api, reply) ==
    IF api \notin client.methods
    THEN [response |-> None, calls |-> 0, raised |-> FALSE]
    ELSE IF reply.kind \in {"raise", "none"}
    THEN [response |-> None, calls |-> 1, raised |-> FALSE]
    ELSE [response |-> Some(reply), calls |-> 1, raised |-> FALSE]

\* pd.DataFrame([response]) for a response that is no dict with the dataset
\* key and no list: a dict gives one row of its values (no column when the
\* dict is empty), a scalar one row.  Table <<2>> is the row made of the
\* response itself.  What pandas makes of a DataFrame inside a list is left
\* open: the constructor raises (wrapped = FALSE) or builds a row.
OneRowOf(r, wrapped) ==
    IF r.kind = "dict" THEN [ok |-> TRUE, df |-> IF r.key = "" THEN <<0>> ELSE <<2>>]
    ELSE IF r.kind = "frame" THEN [ok |-> wrapped, df |-> <<2>>]
    ELSE [ok |-> TRUE, df |-> <<2>>]

\* The try block of a fetch_* method (fetcher.py 97-106 and its siblings):
\* the reply is turned into a table; ok is FALSE when that raises.
Normalize(m, r, wrapped) ==
    IF m.checksFrame /\ r.kind = "frame" THEN [ok |-> TRUE, df |-> r.rows]
    ELSE IF r.kind = "dict" /\ r.key = m.dataKey THEN [ok |-> r.ok, df |-> r.rows]
    ELSE IF r.kind = "list" THEN [ok |-> TRUE, df |-> r.rows]
    ELSE IF m.other = "empty" THEN [ok |-> TRUE, df |-> <<>>]
    ELSE OneRowOf(r, wrapped)

\* cache.set as one step (cache.py 199-242).
CacheSet_Unconditional(tbl, key, df, ttl_hours, t) ==
    InsertOrReplace(tbl, EntryRow(SanitizeKey(key), df, t, t + Hours(ttl_hours)))
CacheSet(tbl, key, df, ttl_hours, t) ==
    IF SetSkips(df) THEN tbl
    ELSE InsertOrReplace(tbl, EntryRow(SanitizeKey(key), df, t, t + Hours(ttl_hours)))

\* What a finished fetch leaves in res: its arguments, the table returned,
\* whether it raised, the number of client calls, the client's reply, and
\* the rows its cache lookup deleted (evicted).
FetchResult(l, ret, raised, calls, reply) ==
    [op |-> "fetch", method |-> l.method, key |-> l.key, force |-> l.force,
     evicted |-> l.evicted, ret |-> ret, raised |-> raised, calls |-> calls, reply |-> reply]

\* The head of a fetch_* method: the cache key and, without force_refresh,
\* cache.get; a cached table is returned at once.
FetchBegin(c, args, force) ==
    /\ pc[c] = "idle"
    /\ fetcher.method # "none"
    /\ fetcher.sleeps < MaxSleeps \/ now - fetcher.last_request_time >= MIN_REQUEST_INTERVAL
    /\ LET m == MethodNamed(fetcher.method)
           key == FetchCacheKey(m, args)
           k == SanitizeKey(key)
           rows == RowsFor(entries, k)
           l == [op |-> "fetch", method |-> m.name, key |-> key, force |-> force,
                 evicted |-> {}]
       IN IF force \/ rows = {}
          THEN /\ pc' = [pc EXCEPT ![c] = "fetch_rate"]
               /\ loc' = [loc EXCEPT ![c] = l]
               /\ UNCHANGED <<entries, res>>
          ELSE \E row \in rows :
               LET out == GetOutcome(entries, k, row, now) IN
               /\ entries' = out.entries
               /\ IF out.raised \/ out.ret # None
                  THEN /\ res' = [res EXCEPT ![c] =
                                    FetchResult(l, IF out.raised THEN <<>> ELSE out.ret.val,
                                                out.raised, 0, NoReply)]
                       /\ UNCHANGED <<pc, loc>>
                  ELSE /\ pc' = [pc EXCEPT ![c] = "fetch_rate"]
                       /\ loc' = [loc EXCEPT ![c] =
                                    [l EXCEPT !.evicted = entries \ out.entries]]
                       /\ UNCHANGED res
    /\ UNCHANGED <<now, metadata, files, constructed, commits, fetcher, jquants>>

\* fetcher.py 43-46: the time _rate_limit sleeps, given the time elapsed
\* since _last_request_time.
SleepTime_None(elapsed) == 0
SleepTime(elapsed) ==
    IF elapsed < MIN_REQUEST_INTERVAL THEN MIN_REQUEST_INTERVAL - elapsed ELSE 0

\* fetcher.py 40-47: sleep for what is missing of MIN_REQUEST_INTERVAL since
\* the last request, then record the time.
FetchRateLimit(c) ==
    /\ pc[c] = "fetch_rate"
    /\ LET elapsed == now - fetcher.last_request_time
           sleeps == SleepTime(elapsed) > 0
       IN /\ now' = now + SleepTime(elapsed)
          /\ fetcher' = [fetcher EXCEPT !.last_request_time = now',
                                        !.sleeps = IF sleeps THEN @ + 1 ELSE @]
    /\ pc' = [pc EXCEPT ![c] = "fetch_call"]
    /\ UNCHANGED <<entries, metadata, files, loc, res, constructed, commits, jquants>>

\* The client call and the rest of the fetch_* method: None gives an empty
\* table; otherwise the reply is normalized, stored with the method's TTL
\* (only when not empty, where the method checks) and returned; a failure of
\* the processing gives an empty table.
FetchCall(c) ==
    /\ pc[c] = "fetch_call"
    /\ LET l == loc[c]
           m == MethodNamed(l.method)
           k == SanitizeKey(l.key)
       IN \E reply \in (IF m.api \in fetcher.client.methods
                        THEN Replies(fetcher.client, m) ELSE {NoReply}),
             wrapped \in BOOLEAN :
          LET api == MakeApiCall(fetcher.client, m.api, reply)
              n == Normalize(m, reply, wrapped)
          IN IF api.raised \/ api.response = None
             THEN /\ res' = [res EXCEPT ![c] =
                               FetchResult(l, <<>>, api.raised, api.calls, reply)]
                  /\ UNCHANGED entries
             ELSE IF ~n.ok
             THEN /\ res' = [res EXCEPT ![c] =
                               FetchResult(l, <<>>, FALSE, api.calls, reply)]
                  /\ UNCHANGED entries
             ELSE LET tbl == IF m.guarded /\ IsEmpty(n.df) THEN entries
                             ELSE CacheSet(entries, l.key, n.df, m.ttl, now)
                  IN /\ entries' = tbl
                     /\ res' = [res EXCEPT ![c] =
                                  FetchResult(l, n.df, FALSE, api.calls, reply)]
    /\ pc' = [pc EXCEPT ![c] = "idle"]
    /\ loc' = [loc EXCEPT ![c] = Nil]
    /\ UNCHANGED <<now, metadata, files, constructed, commits, fetcher, jquants>>

\* Time passing between the calls of a report run, in steps of the shortest
\* TTL (6 hours; four of them make the 24 hours of the others).
FetchClock ==
    /\ now + Hours(6) <= Hours(MaxFetchHours)
    /\ now' = now + Hours(6)
    /\ UNCHANGED <<entries, metadata, files, pc, loc, res, constructed, commits, fetcher, jquants>>

\* A cached payload of the dataset is damaged on disk.
FetchCorrupt ==
    /\ fetcher.method # "none"
    /\ Corrupt(FetchCacheKey(MethodNamed(fetcher.method), fetcher.args))

(***************************************************************************)
(* Specification: one caller fetching one dataset, with the same arguments  *)
(* each time, through a DataFetcher built on the constructed cache.  The clock starts after the epoch, so    *)
(* the first request (with _last_request_time = 0.0) does not sleep.        *)
(***************************************************************************)
InitFetch ==
    /\ now = Hours(1)
    /\ entries = {}
    /\ metadata = [k \in {"schema_version", "migration_completed"} |->
                      IF k = "schema_version" THEN "1" ELSE "true"]
    /\ files = EmptyMap
    /\ pc = [c \in Callers |-> IF c = "c1" THEN "idle" ELSE "off"]
    /\ loc = [c \in Callers |-> Nil]
    /\ res = [c \in Callers |-> Nil]
    /\ constructed = TRUE
    /\ commits = NotTracked
    /\ \E client \in Clients, m \in FetchMethods : \E args \in FetchArgs(m) :
          fetcher = [client |-> client, last_request_time |-> 0, sleeps |-> 0,
                     method |-> m.name, args |-> args]
    /\ jquants = NoClient

NextFetch ==
    \/ FetchClock
    \/ \E c \in Callers, force \in BOOLEAN : FetchBegin(c, fetcher.args, force)
    \/ \E c \in Callers : FetchRateLimit(c)
    \/ \E c \in Callers : FetchCall(c)
    \/ FetchCorrupt

SpecFetch == InitFetch /\ [][NextFetch]_vars

(***************************************************************************)
(* Specification: two threads sharing one DataFetcher.  Each calls          *)
(* fetch_listed_info(force_refresh=True) again and again; _rate_limit is    *)
(* taken statement by statement (it holds no lock): the read of the clock   *)
(* and of _last_request_time, the sleep, the second read of the clock, and  *)
(* the store into _last_request_time.  A sleeping thread waits for the      *)
(* clock, which advances by half the interval.                              *)
(***************************************************************************)
MaxRateTicks == 4

\* fetcher.py 42-44: elapsed and the time until which the thread sleeps.
RateRead(c) ==
    /\ pc[c] = "fetch_rate"
    /\ LET elapsed == now - fetcher.last_request_time
       IN loc' = [loc EXCEPT ![c] =
                    [op |-> "fetch", method |-> loc[c].method, key |-> loc[c].key,
                     force |-> loc[c].force, evicted |-> loc[c].evicted,
                     wake |-> now + SleepTime(elapsed),
                     stamp |-> 0]]
    /\ pc' = [pc EXCEPT ![c] = "rate_sleep"]
    /\ UNCHANGED <<now, entries, metadata, files, res, constructed, commits, fetcher, jquants>>

\* fetcher.py 46-47: time.sleep returns once the time has passed, and
\* time.time() is evaluated.
RateWake(c) ==
    /\ pc[c] = "rate_sleep"
    /\ now >= loc[c].wake
    /\ loc' = [loc EXCEPT ![c].stamp = now]
    /\ pc' = [pc EXCEPT ![c] = "rate_store"]
    /\ UNCHANGED <<now, entries, metadata, files, res, constructed, commits, fetcher, jquants>>

\* fetcher.py 47: the value is stored into self._last_request_time.
RateStore(c) ==
    /\ pc[c] = "rate_store"
    /\ fetcher' = [fetcher EXCEPT !.last_request_time = loc[c].stamp]
    /\ pc' = [pc EXCEPT ![c] = "fetch_call"]
    /\ UNCHANGED <<now, entries, metadata, files, loc, res, constructed, commits, jquants>>

RateClock ==
    /\ now + (MIN_REQUEST_INTERVAL \div 2) <= Hours(1) + MaxRateTicks * (MIN_REQUEST_INTERVAL \div 2)
    /\ now' = now + (MIN_REQUEST_INTERVAL \div 2)
    /\ UNCHANGED <<entries, metadata, files, pc, loc, res, constructed, commits, fetcher, jquants>>

InitRate ==
    /\ now = Hours(1)
    /\ entries = {}
    /\ metadata = [k \in {"schema_version", "migration_completed"} |->
                      IF k = "schema_version" THEN "1" ELSE "true"]
    /\ files = EmptyMap
    /\ pc = [c \in Callers |-> "idle"]
    /\ loc = [c \in Callers |-> Nil]
    /\ res = [c \in Callers |-> Nil]
    /\ constructed = TRUE
    /\ commits = NotTracked
    /\ fetcher = [client |-> [kind |-> "JQuantsClient", methods |-> JQuantsClientMethods],
                  last_request_time |-> 0, sleeps |-> 0,
                  method |-> "fetch_listed_info",
                  args |-> [dates |-> <<>>, code |-> None]]
    /\ jquants = NoClient

NextRate ==
    \/ RateClock
    \/ \E c \in Callers : FetchBegin(c, fetcher.args, TRUE)
    \/ \E c \in Callers : RateRead(c)
    \/ \E c \in Callers : RateWake(c)
    \/ \E c \in Callers : RateStore(c)
    \/ \E c \in Callers : FetchCall(c)

SpecRate == InitRate /\ [][NextRate]_vars

(***************************************************************************)
(* JQuantsClient and JQuantsAuthenticator                                   *)
(* jquants holds the authenticator's tokens (_refresh_token, _id_token) and *)
(* the client's _last_request_time; made and ticks count the data requests  *)
(* begun and the clock steps taken.                                         *)
(***************************************************************************)
\* client.py 67: rate_limit_delay = 1.0 second, in clock units.
rate_limit_delay == 1000
\* auth.py 42: is_expired(buffer_seconds=300), in clock units.
buffer_seconds == 300000
\* auth.py 171: an ID token is valid for 24 * 60 * 60 seconds.
TokenLifetime == Hours(24)
\* client.py 99: stop=stop_after_attempt(3).
stop_after_attempt == 3

MaxClientRequests == 2
MaxClientTicks == 3

\* client.py 100: wait_exponential(multiplier=1, min=2, max=10), the wait
\* after the failed attempt number n: 2^(n-1) seconds kept within [2, 10].
RECURSIVE Pow2(_)
Pow2(n) == IF n = 0 THEN 1 ELSE 2 * Pow2(n - 1)
WaitExponential(n) ==
    LET raw == Pow2(n - 1) * 1000
    IN IF raw < 2 * 1000 THEN 2 * 1000 ELSE IF raw > 10 * 1000 THEN 10 * 1000 ELSE raw

\* auth.py 42-52: TokenInfo.is_expired.
IsExpired_NoBuffer(tok, t) == t >= tok.expires_at
IsExpired(tok, t) == t >= tok.expires_at - buffer_seconds

\* "if self._refresh_token": None and the empty string count as not held.
HoldsRefreshToken(jq) == jq.refresh_token # None /\ jq.refresh_token.val # ""

\* What the vendor answers to a token request: the token, an HTTP or
\* transport error, or a body without the token.
AuthReplies == {"ok", "http_error", "no_token"}

\* auth.py 95-131: get_refresh_token.  posts lists the HTTP requests made.
GetRefreshToken(jq, o1) ==
    IF HoldsRefreshToken(jq)
    THEN [jq |-> jq, posts |-> <<>>, raised |-> "none"]
    ELSE IF o1 = "ok"
    THEN [jq |-> [jq EXCEPT !.refresh_token = Some("refreshToken")],
          posts |-> <<"auth_user">>, raised |-> "none"]
    ELSE [jq |-> jq, posts |-> <<"auth_user">>, raised |-> "AuthenticationError"]

\* auth.py 133-175: get_id_token at time t.
GetIdToken(jq, force_refresh, t, o1, o2) ==
    IF ~force_refresh /\ jq.id_token # None /\ ~IsExpired(jq.id_token.val, t)
    THEN [jq |-> jq, posts |-> <<>>, raised |-> "none", ret |-> jq.id_token]
    ELSE LET r == GetRefreshToken(jq, o1) IN
         IF r.raised # "none"
         THEN [jq |-> r.jq, posts |-> r.posts, raised |-> r.raised, ret |-> None]
         ELSE IF o2 = "ok"
         THEN LET tok == [expires_at |-> t + TokenLifetime] IN
              [jq |-> [r.jq EXCEPT !.id_token = Some(tok)],
               posts |-> r.posts \o <<"auth_refresh">>, raised |-> "none",
               ret |-> Some(tok)]
         ELSE [jq |-> r.jq, posts |-> r.posts \o <<"auth_refresh">>,
               raised |-> "AuthenticationError", ret |-> None]

\* A direct call of get_id_token (get_auth_headers, get_refresh_token of the
\* client).  res keeps the tokens held before the call.
GetIdTokenCall(c, force_refresh) ==
    /\ pc[c] = "idle"
    /\ \E o1 \in AuthReplies, o2 \in AuthReplies :
         LET r == GetIdToken(jquants, force_refresh, now, o1, o2) IN
         /\ jquants' = r.jq
         /\ res' = [res EXCEPT ![c] =
                      [op |-> "get_id_token", force |-> force_refresh, at |-> now,
                       held |-> jquants.id_token, refresh |-> jquants.refresh_token,
                       posts |-> r.posts, ret |-> r.ret, raised |-> r.raised]]
    /\ UNCHANGED <<now, entries, metadata, files, pc, loc, constructed, commits, fetcher>>

\* auth.py 189-192
InvalidateTokens(jq) == [jq EXCEPT !.id_token = None]

\* auth.py 194-198, called by JQuantsClient.clear_cache.
ClearAllTokens(c) ==
    /\ pc[c] = "idle"
    /\ jquants' = [jquants EXCEPT !.id_token = None, !.refresh_token = None]
    /\ UNCHANGED <<now, entries, metadata, files, pc, loc, res, constructed, commits, fetcher>>

\* What the vendor (or the transport) answers to a data request.
Statuses == {"200", "401", "404", "429", "500", "connection_error"}

\* client.py 141-162: the exception _make_request raises for an answer.
\* Every RequestException (a connection error, a timeout) is re-raised as
\* APIError.
ExceptionFor(status) ==
    IF status = "200" THEN "none"
    ELSE IF status = "401" THEN "AuthenticationError"
    ELSE IF status = "404" THEN "NotFoundError"
    ELSE IF status = "429" THEN "RateLimitError"
    ELSE "APIError"

\* client.py 26-41, 98: retry_if_exception_type((RequestException, APIError));
\* NotFoundError and RateLimitError are subclasses of APIError.
IsRetried_AuthToo(exc) ==
    exc \in {"APIError", "NotFoundError", "RateLimitError", "AuthenticationError"}
IsRetried(exc) == exc \in {"APIError", "NotFoundError", "RateLimitError"}

\* What a finished _make_request leaves in res: the answers to its attempts,
\* the token requests made on the way, and the exception raised.
RequestResult(l, raised) ==
    [op |-> "request", log |-> l.log, posts |-> l.posts, raised |-> raised,
     attempts |-> l.attempt]

\* A data request (a get_* method of the client) starts its first attempt.
RequestBegin(c) ==
    /\ pc[c] = "idle"
    /\ jquants.made < MaxClientRequests
    /\ jquants' = [jquants EXCEPT !.made = @ + 1]
    /\ pc' = [pc EXCEPT ![c] = "req_rate"]
    /\ loc' = [loc EXCEPT ![c] = [op |-> "request", attempt |-> 1, log |-> <<>>,
                                  posts |-> <<>>]]
    /\ UNCHANGED <<now, entries, metadata, files, res, constructed, commits, fetcher>>

\* client.py 88-95, 125: _enforce_rate_limit at the start of every attempt.
RequestRateLimit(c) ==
    /\ pc[c] = "req_rate"
    /\ LET elapsed == now - jquants.last_request_time
       IN /\ now' = IF elapsed < rate_limit_delay
                    THEN now + (rate_limit_delay - elapsed) ELSE now
          /\ jquants' = [jquants EXCEPT !.last_request_time = now']
    /\ pc' = [pc EXCEPT ![c] = "req_auth"]
    /\ UNCHANGED <<entries, metadata, files, loc, res, constructed, commits, fetcher>>

\* client.py 128: get_auth_headers; an AuthenticationError leaves
\* _make_request at once.
RequestAuth(c) ==
    /\ pc[c] = "req_auth"
    /\ \E o1 \in AuthReplies, o2 \in AuthReplies :
         LET r == GetIdToken(jquants, FALSE, now, o1, o2)
             l == [loc[c] EXCEPT !.posts = @ \o r.posts]
         IN /\ jquants' = r.jq
            /\ IF r.raised # "none" /\ ~IsRetried(r.raised)
               THEN /\ res' = [res EXCEPT ![c] = RequestResult(l, r.raised)]
                    /\ pc' = [pc EXCEPT ![c] = "idle"]
                    /\ loc' = [loc EXCEPT ![c] = Nil]
               ELSE /\ pc' = [pc EXCEPT ![c] =
                                IF r.raised = "none" THEN "req_send"
                                ELSE IF l.attempt < stop_after_attempt THEN "req_wait"
                                ELSE "idle"]
                    /\ loc' = [loc EXCEPT ![c] =
                                 IF r.raised # "none" /\ l.attempt >= stop_after_attempt
                                 THEN Nil ELSE l]
                    /\ res' = IF r.raised # "none" /\ l.attempt >= stop_after_attempt
                              THEN [res EXCEPT ![c] = RequestResult(l, r.raised)]
                              ELSE res
    /\ UNCHANGED <<now, entries, metadata, files, constructed, commits, fetcher>>

\* client.py 132-162: the HTTP request and the handling of its answer; a 401
\* invalidates the ID token.  An exception of a retried class starts another
\* attempt while fewer than stop_after_attempt were made (reraise=True).
RequestSend(c) ==
    /\ pc[c] = "req_send"
    /\ \E status \in Statuses :
         LET exc == ExceptionFor(status)
             l == [loc[c] EXCEPT !.log = Append(@, status)]
         IN /\ jquants' = IF status = "401" THEN InvalidateTokens(jquants) ELSE jquants
            /\ IF exc # "none" /\ IsRetried(exc) /\ l.attempt < stop_after_attempt
               THEN /\ pc' = [pc EXCEPT ![c] = "req_wait"]
                    /\ loc' = [loc EXCEPT ![c] = l]
                    /\ UNCHANGED res
               ELSE /\ res' = [res EXCEPT ![c] = RequestResult(l, exc)]
                    /\ pc' = [pc EXCEPT ![c] = "idle"]
                    /\ loc' = [loc EXCEPT ![c] = Nil]
    /\ UNCHANGED <<now, entries, metadata, files, constructed, commits, fetcher>>

\* tenacity sleeps before the next attempt.
RequestWait(c) ==
    /\ pc[c] = "req_wait"
    /\ now' = now + WaitExponential(loc[c].attempt)
    /\ loc' = [loc EXCEPT ![c].attempt = @ + 1]
    /\ pc' = [pc EXCEPT ![c] = "req_rate"]
    /\ UNCHANGED <<entries, metadata, files, res, constructed, commits, fetcher, jquants>>

\* Time passing between calls (the time a call takes is its sleeps): to one
\* second before an ID token obtained at the start enters its last
\* buffer_seconds, and on by one second.
ClientClock ==
    /\ jquants.ticks < MaxClientTicks
    /\ \A c \in Callers : pc[c] \in {"idle", "off"}
    /\ \E d \in {TokenLifetime - buffer_seconds - 1000, 1000} : now' = now + d
    /\ jquants' = [jquants EXCEPT !.ticks = @ + 1]
    /\ UNCHANGED <<entries, metadata, files, pc, loc, res, constructed, commits, fetcher>>

(***************************************************************************)
(* Specification: one caller using a JQuantsClient built with or without a  *)
(* refresh token from the configuration.                                    *)
(***************************************************************************)
InitClient ==
    /\ now = Hours(1)
    /\ entries = {}
    /\ metadata = [k \in {"schema_version", "migration_completed"} |->
                      IF k = "schema_version" THEN "1" ELSE "true"]
    /\ files = EmptyMap
    /\ pc = [c \in Callers |-> IF c = "c1" THEN "idle" ELSE "off"]
    /\ loc = [c \in Callers |-> Nil]
    /\ res = [c \in Callers |-> Nil]
    /\ constructed = TRUE
    /\ commits = NotTracked
    /\ fetcher = NoFetcher
    /\ \E rt \in {None, Some(""), Some("refreshToken")} :
          jquants = [id_token |-> None, refresh_token |-> rt,
                     last_request_time |-> 0, made |-> 0, ticks |-> 0]

NextClient ==
    \/ ClientClock
    \/ \E c \in Callers : RequestBegin(c)
    \/ \E c \in Callers : RequestRateLimit(c)
    \/ \E c \in Callers : RequestAuth(c)
    \/ \E c \in Callers : RequestSend(c)
    \/ \E c \in Callers : RequestWait(c)

SpecClient == InitClient /\ [][NextClient]_vars

(***************************************************************************)
(* Specification: one caller using the JQuantsAuthenticator directly.       *)
(***************************************************************************)
\* invalidate_tokens called from outside _make_request.
InvalidateCall(c) ==
    /\ pc[c] = "idle"
    /\ jquants' = InvalidateTokens(jquants)
    /\ UNCHANGED <<now, entries, metadata, files, pc, loc, res, constructed, commits, fetcher>>

NextAuth ==
    \/ ClientClock
    \/ \E c \in Callers, force_refresh \in BOOLEAN : GetIdTokenCall(c, force_refresh)
    \/ \E c \in Callers : InvalidateCall(c)
    \/ \E c \in Callers : ClearAllTokens(c)

SpecAuth == InitClient /\ [][NextAuth]_vars

(***************************************************************************)
(* A report run (main.py): main() calls generate_report or                  *)
(* generate_weekly_report, which build a JQuantsClient, a CacheManager and   *)
(* a DataFetcher and then read their datasets one after the other, each at   *)
(* one site of the code.  A site is a step of the plan below; the analysis   *)
(* and the writing of the report come after the last site.                  *)
(***************************************************************************)
\* Runs started in one behaviour.
MaxRuns == 1

\* The dates of a run: the target date (a Monday) of a daily run with the
\* trading day before it and one more day of the historical loop; the week
\* end (a Friday) of a weekly run and the last day of the week before.
TargetDate == "2024-01-15"
PrevDate == "2024-01-12"
HistDate == "2024-01-11"
WeekEnd == "2024-01-19"
PrevWeekEnd == "2024-01-12"

\* One site: how the dataset is obtained there, the fetch_* method and the
\* cache key.  "get_or_fetch" is `cache.get(k) or fetcher.fetch_x()`, "fetch"
\* is fetcher.fetch_x(), "get" is cache.get(k), "get_else_fetch" fetches when
\* cache.get gave None and the run is no dry run (main.py: `not dry_run`,
\* `and fetcher`), "agg" is the aggregator's loop body (a cached table that
\* is not empty, `elif self.fetcher` a fetch), "fetch_if" is
\* `if fetcher: fetcher.fetch_x()`.
Site(kind, method, dates) ==
    [kind |-> kind, method |-> method,
     key |-> FetchCacheKey(MethodNamed(method), [dates |-> dates, code |-> None])]

\* main.py 144-152 (dry run) and 153-262: the sites of generate_report.  Of
\* the historical loop (main.py 221-231, up to 34 days) the first two trading
\* days are kept.
DailyPlan(dry_run) ==
    IF dry_run
    THEN << Site("get_or_fetch", "fetch_daily_quotes", <<TargetDate>>),
            Site("get_or_fetch", "fetch_indices", <<TargetDate>>),
            Site("get_or_fetch", "fetch_listed_info", <<>>),
            Site("get_else_fetch", "fetch_daily_quotes", <<PrevDate>>),
            Site("get_else_fetch", "fetch_indices", <<PrevDate>>),
            [kind |-> "get", method |-> "none", key |-> <<"historical_prices">>],
            Site("get", "fetch_trades_spec", <<TargetDate>>),
            Site("get", "fetch_margin_interest", <<TargetDate>>),
            Site("get", "fetch_short_selling", <<TargetDate>>) >>
    ELSE << Site("fetch", "fetch_daily_quotes", <<TargetDate>>),
            Site("fetch", "fetch_indices", <<TargetDate>>),
            Site("fetch", "fetch_listed_info", <<>>),
            Site("get_else_fetch", "fetch_daily_quotes", <<PrevDate>>),
            Site("get_else_fetch", "fetch_indices", <<PrevDate>>),
            Site("fetch", "fetch_daily_quotes", <<PrevDate>>),
            Site("fetch", "fetch_daily_quotes", <<HistDate>>),
            Site("fetch", "fetch_trades_spec", <<TargetDate>>),
            Site("fetch", "fetch_margin_interest", <<TargetDate>>),
            Site("fetch", "fetch_short_selling", <<TargetDate>>) >>

\* main.py 519-604 with weekly_aggregator.py 105-121, 280-291, 309-319: the
\* sites of generate_weekly_report, the same for a dry run (the fetcher is
\* None then).  Of the days of a week the last one is kept.
WeeklyPlan ==
    << Site("get_else_fetch", "fetch_listed_info", <<>>),
       Site("get_else_fetch", "fetch_daily_quotes", <<PrevWeekEnd>>),
       Site("agg", "fetch_daily_quotes", <<WeekEnd>>),
       Site("get_else_fetch", "fetch_indices", <<PrevWeekEnd>>),
       Site("agg", "fetch_indices", <<WeekEnd>>),
       Site("agg", "fetch_trades_spec", <<WeekEnd>>),
       Site("get_else_fetch", "fetch_margin_interest", <<WeekEnd>>),
       Site("fetch_if", "fetch_announcement", <<>>),
       Site("get", "fetch_indices", <<PrevWeekEnd>>) >>

RunPlan(weekly, dry_run) == IF weekly THEN WeeklyPlan ELSE DailyPlan(dry_run)

\* cache.get(key) at time t as one step (cache.py 163-197).
CacheGet(tbl, key, t) ==
    LET k == SanitizeKey(key)
        rows == RowsFor(tbl, k)
    IN IF rows = {} THEN [entries |-> tbl, ret |-> None, raised |-> FALSE]
       ELSE LET out == GetOutcome(tbl, k, CHOOSE row \in rows : TRUE, t)
            IN [entries |-> out.entries, ret |-> out.ret, raised |-> out.raised]

\* A fetch_* method after its cache.get missed, with the request made at
\* time t: the client call through _make_api_call, the normalization of the
\* reply and cache.set.  An exception of the client (an authentication
\* failure too) ends in _make_api_call: the method returns an empty table.
FetchOutcome(tbl, client, m, key, reply, wrapped, t) ==
    LET api == MakeApiCall(client, m.api, reply)
        n == Normalize(m, reply, wrapped)
    IN IF api.raised
       THEN [entries |-> tbl, ret |-> <<>>, calls |-> api.calls, raised |-> TRUE]
       ELSE IF api.response = None \/ ~n.ok
       THEN [entries |-> tbl, ret |-> <<>>, calls |-> api.calls, raised |-> FALSE]
       ELSE [entries |-> IF m.guarded /\ IsEmpty(n.df) THEN tbl
                         ELSE CacheSet(tbl, key, n.df, m.ttl, t),
             ret |-> n.df, calls |-> api.calls, raised |-> FALSE]

\* bool(DataFrame), which the `or` of main.py 146-152 evaluates on a table
\* cache.get returned: pandas raises ValueError for every DataFrame.
TruthOfDataFrame(df) == [raised |-> TRUE]

\* Whether the site goes on to the fetcher after cache.get returned got.
SiteFetches(site, dry_run, got) ==
    CASE site.kind = "fetch" -> got = None
      [] site.kind = "get_or_fetch" -> got = None
      [] site.kind = "get_else_fetch" -> got = None /\ ~dry_run
      [] site.kind = "agg" -> (got = None \/ IsEmpty(got.val)) /\ ~dry_run
      [] site.kind = "fetch_if" -> got = None /\ ~dry_run
      [] OTHER -> FALSE

\* What main() leaves: the exit code, whether a report file was written, and
\* what happened on the way (the client calls made, whether one of them
\* failed with AuthenticationError).
RunResult(l, exit_code, report_written) ==
    [op |-> "run", weekly |-> l.weekly, dry_run |-> l.dry_run,
     exit_code |-> exit_code, report_written |-> report_written,
     calls |-> l.calls, auth_failed |-> l.auth_failed, runs |-> l.runs]

\* main.py 718-744 and 132-139 / 498-507: the arguments are parsed and the
\* run's client, cache and fetcher are built (a new DataFetcher has
\* _last_request_time = 0).
RunBegin(c, weekly, dry_run) ==
    /\ pc[c] = "idle"
    /\ (IF res[c].op = "run" THEN res[c].runs ELSE 0) < MaxRuns
    /\ pc' = [pc EXCEPT ![c] = "run"]
    /\ loc' = [loc EXCEPT ![c] =
                 [op |-> "run", weekly |-> weekly, dry_run |-> dry_run, pos |-> 1,
                  calls |-> 0, auth_failed |-> FALSE,
                  runs |-> (IF res[c].op = "run" THEN res[c].runs ELSE 0) + 1]]
    /\ fetcher' = [fetcher EXCEPT !.last_request_time = 0]
    /\ UNCHANGED <<now, entries, metadata, files, res, constructed, commits, jquants>>

\* One site of the plan.  cache.get comes first (in the fetch_* method
\* itself at a "fetch" site); a table it returns is used, except that the
\* `or` of a "get_or_fetch" site raises on it, which ends the run in main's
\* except clause (main.py 746-748).  Otherwise, where the site goes on to the
\* fetcher, the request waits for the rate limit and is made.
RunSite(c) ==
    /\ pc[c] = "run"
    /\ loc[c].pos <= Len(RunPlan(loc[c].weekly, loc[c].dry_run))
    /\ LET l == loc[c]
           site == RunPlan(l.weekly, l.dry_run)[l.pos]
           got == IF site.kind = "fetch_if"
                  THEN [entries |-> entries, ret |-> None, raised |-> FALSE]
                  ELSE CacheGet(entries, site.key, now)
       IN IF site.kind = "get_or_fetch" /\ got.ret # None
             /\ TruthOfDataFrame(got.ret.val).raised
          THEN /\ entries' = got.entries
               /\ res' = [res EXCEPT ![c] = RunResult(l, 1, FALSE)]
               /\ pc' = [pc EXCEPT ![c] = "idle"]
               /\ loc' = [loc EXCEPT ![c] = Nil]
               /\ UNCHANGED <<now, fetcher>>
          ELSE IF ~SiteFetches(site, l.dry_run, got.ret)
          THEN /\ entries' = got.entries
               /\ loc' = [loc EXCEPT ![c].pos = @ + 1]
               /\ UNCHANGED <<now, fetcher, pc, res>>
          ELSE LET m == MethodNamed(site.method)
                   t == now + SleepTime(now - fetcher.last_request_time)
               IN \E reply \in (IF m.api \in fetcher.client.methods
                                THEN Replies(fetcher.client, m) ELSE {NoReply}),
                     wrapped \in BOOLEAN :
                  LET out == FetchOutcome(got.entries, fetcher.client, m, site.key,
                                          reply, wrapped, t)
                  IN /\ now' = t
                     /\ fetcher' = [fetcher EXCEPT !.last_request_time = t]
                     /\ entries' = out.entries
                     /\ loc' = [loc EXCEPT ![c].pos = @ + 1,
                                           ![c].calls = @ + out.calls,
                                           ![c].auth_failed =
                                              @ \/ (out.calls > 0 /\ reply.kind = "raise"
                                                    /\ reply.exc = "AuthenticationError")]
                     /\ UNCHANGED <<pc, res>>
    /\ UNCHANGED <<metadata, files, constructed, commits, jquants>>

\* After the last site: the analysis and the report generator (main.py
\* 264-444, 606-697).  They either write the report, and main returns 0, or
\* raise on the data they were given, and main returns 1 (main.py 745-748).
RunReport(c) ==
    /\ pc[c] = "run"
    /\ loc[c].pos = Len(RunPlan(loc[c].weekly, loc[c].dry_run)) + 1
    /\ \E written \in BOOLEAN :
          res' = [res EXCEPT ![c] = RunResult(loc[c], IF written THEN 0 ELSE 1, written)]
    /\ pc' = [pc EXCEPT ![c] = "idle"]
    /\ loc' = [loc EXCEPT ![c] = Nil]
    /\ UNCHANGED <<now, entries, metadata, files, constructed, commits, fetcher, jquants>>

\* The cache directory a run finds: nothing, the target day's quotes only,
\* or every dataset of the plans, stored an hour before.
RECURSIVE Stored(_, _)
Stored(keys, t) ==
    IF keys = <<>> THEN {}
    ELSE CacheSet(Stored(Tail(keys), t), Head(keys), <<1>>, 24, t)
PlanKeys(plan) == [i \in 1..Len(plan) |-> plan[i].key]
RunCaches ==
    { {},
      Stored(<<DailyPlan(TRUE)[1].key>>, 0),
      Stored(PlanKeys(DailyPlan(TRUE)) \o PlanKeys(DailyPlan(FALSE)) \o PlanKeys(WeeklyPlan), 0) }

InitRun ==
    /\ now = Hours(1)
    /\ entries \in RunCaches
    /\ metadata = [k \in {"schema_version", "migration_completed"} |->
                      IF k = "schema_version" THEN "1" ELSE "true"]
    /\ files = EmptyMap
    /\ pc = [c \in Callers |-> IF c = "c1" THEN "idle" ELSE "off"]
    /\ loc = [c \in Callers |-> Nil]
    /\ res = [c \in Callers |-> Nil]
    /\ constructed = TRUE
    /\ commits = NotTracked
    /\ fetcher = [NoFetcher EXCEPT
                    !.client = [kind |-> "JQuantsClient", methods |-> JQuantsClientMethods]]
    /\ jquants = NoClient

NextRun ==
    \/ \E c \in Callers, weekly \in BOOLEAN, dry_run \in BOOLEAN : RunBegin(c, weekly, dry_run)
    \/ \E c \in Callers : RunSite(c)
    \/ \E c \in Callers : RunReport(c)

SpecRun == InitRun /\ [][NextRun]_vars

(***************************************************************************)
(* WeeklyDataAggregator (weekly_aggregator.py): the calendar of a week.     *)
(* A date is its proleptic Gregorian ordinal (date.toordinal()), so that    *)
(* timedelta(days=n) is the addition of n and the comparison of dates that  *)
(* of numbers.                                                              *)
(***************************************************************************)
\* The week_end arguments tried: the days from Monday 2024-01-15 on.
MaxWeekDates == 56
FirstWeekDate == 738900
WeekDates == FirstWeekDate .. FirstWeekDate + MaxWeekDates - 1

\* date.weekday(): Monday is 0 and Sunday is 6.
Weekday(d) == (d + 6) % 7

\* weekly_aggregator.py 56: the test a day of the loop must pass.
IsKept_NoUpperBound(day, week_end) == Weekday(day) < 5
IsKept(day, week_end) == day <= week_end /\ Weekday(day) < 5

\* weekly_aggregator.py 54-57: the loop `for i in range(5)` from i on,
\* appending the days that pass the test.
RECURSIVE WeekLoop(_, _, _)
WeekLoop(week_start, week_end, i) ==
    IF i >= 5 THEN <<>>
    ELSE (IF IsKept(week_start + i, week_end) THEN <<week_start + i>> ELSE <<>>)
         \o WeekLoop(week_start, week_end, i + 1)

\* weekly_aggregator.py 39-59
GetWeekTradingDays(week_end) ==
    LET days_since_monday == Weekday(week_end)
        week_start == week_end - days_since_monday
    IN WeekLoop(week_start, week_end, 0)

WeekTradingDaysCall(c) ==
    /\ pc[c] = "idle"
    /\ loc[c].op = "week"
    /\ res' = [res EXCEPT ![c] =
                 [op |-> "get_week_trading_days", week_end |-> loc[c].week_end,
                  ret |-> GetWeekTradingDays(loc[c].week_end)]]
    /\ UNCHANGED <<now, entries, metadata, files, pc, loc, constructed, commits, fetcher, jquants>>

\* weekly_aggregator.py 61-74
GetPreviousWeekEnd(week_end) ==
    LET days_to_friday == (Weekday(week_end) - 4) % 7
    IN week_end - (IF days_to_friday = 0 THEN 7 ELSE days_to_friday)

PreviousWeekEndCall(c) ==
    /\ pc[c] = "idle"
    /\ loc[c].op = "week"
    /\ res' = [res EXCEPT ![c] =
                 [op |-> "get_previous_week_end", week_end |-> loc[c].week_end,
                  ret |-> GetPreviousWeekEnd(loc[c].week_end)]]
    /\ UNCHANGED <<now, entries, metadata, files, pc, loc, constructed, commits, fetcher, jquants>>

\* An aggregator (main.py 507) and the week_end it is asked about.
InitWeek ==
    /\ now = Hours(1)
    /\ entries = {}
    /\ metadata = [k \in {"schema_version", "migration_completed"} |->
                      IF k = "schema_version" THEN "1" ELSE "true"]
    /\ files = EmptyMap
    /\ pc = [c \in Callers |-> IF c = "c1" THEN "idle" ELSE "off"]
    /\ \E week_end \in WeekDates :
          loc = [c \in Callers |-> IF c = "c1" THEN [op |-> "week", week_end |-> week_end]
                                  ELSE Nil]
    /\ res = [c \in Callers |-> Nil]
    /\ constructed = TRUE
    /\ commits = NotTracked
    /\ fetcher = NoFetcher
    /\ jquants = NoClient

NextWeek ==
    \/ \E c \in Callers : WeekTradingDaysCall(c)
    \/ \E c \in Callers : PreviousWeekEndCall(c)

SpecWeek == InitWeek /\ [][NextWeek]_vars

(***************************************************************************)
(* WeeklyDataAggregator.aggregate_daily_quotes (weekly_aggregator.py        *)
(* 91-172).  A daily quotes table is the sequence of its rows, a row a      *)
(* record of its columns; prices are decimals (no null, as the data model   *)
(* has them) in hundredths, instrument codes numbers.                       *)
(***************************************************************************)
\* The week aggregated: the one ending on Friday 2024-01-19.
AggWeekEnd == 738904
QuoteCodes == {1301, 7203}

\* The quotes of the five days of a week, from Monday on, for the first
\* instrument; the other instrument and the other variant are shifted.
Opens == <<50, 30, 80, 20, 60>>
Highs == <<90, 85, 95, 70, 88>>
Lows == <<10, 25, 5, 15, 12>>
Closes == <<55, 35, 75, 25, 65>>
Volumes == <<1, 2, 3, 4, 5>>
Turnovers == <<7, 1, 4, 9, 2>>
Quote(day, code, variant) ==
    LET i == Weekday(day) + 1
        shift == (IF code = 1301 THEN 0 ELSE 100) + 3 * variant
    IN [Code |-> code, Date |-> day, Open |-> Opens[i] + shift,
        High |-> Highs[i] + shift, Low |-> Lows[i] + shift,
        Close |-> Closes[i] + shift, Volume |-> Volumes[i] + shift,
        TurnoverValue |-> Turnovers[i] + shift]
DayTable(day, codes, variant) == [i \in 1..Len(codes) |-> Quote(day, codes[i], variant)]

\* What the cache holds for a day (None: no entry; a stored table is never
\* empty) and what fetch_daily_quotes would return for it (an empty table
\* when the vendor has nothing or the request fails).
CachedTable(day, codes) ==
    IF codes = <<>> THEN None ELSE Some(DayTable(day, codes, 0))
FetchedTable(day, codes) == DayTable(day, codes, 1)
CachedCodes == {<<>>, <<1301>>, <<1301, 7203>>}
FetchedCodes == {<<>>, <<7203, 1301>>}

\* df["TradeDate"] = day
WithTradeDate(df, day) ==
    [i \in 1..Len(df) |->
       [Code |-> df[i].Code, Date |-> df[i].Date, Open |-> df[i].Open,
        High |-> df[i].High, Low |-> df[i].Low, Close |-> df[i].Close,
        Volume |-> df[i].Volume, TurnoverValue |-> df[i].TurnoverValue,
        TradeDate |-> day]]

\* weekly_aggregator.py 108-121: the loop over the trading days; the tables
\* collected, concatenated in the order of the days (pd.concat, line 128).
\* A day is taken from the cache when cache.get returns a table that is not
\* empty, else, if there is a fetcher, from the fetcher when what it returns
\* is not empty.
UseFetcher(has_fetcher) == has_fetcher
RECURSIVE CollectDaily(_, _, _, _)
CollectDaily(days, cached, fetched, has_fetcher) ==
    IF days = <<>> THEN <<>>
    ELSE LET day == Head(days)
             df == cached[day]
             got == IF df # None /\ Len(df.val) > 0 THEN WithTradeDate(df.val, day)
                    ELSE IF UseFetcher(has_fetcher) /\ Len(fetched[day]) > 0
                    THEN WithTradeDate(fetched[day], day)
                    ELSE <<>>
         IN got \o CollectDaily(Tail(days), cached, fetched, has_fetcher)

\* sort_values(["Code", "TradeDate"]): a stable sort on the two columns (an
\* insertion sort; a row goes behind the rows that are not greater).
RowLessEq(a, b) == a.Code < b.Code \/ (a.Code = b.Code /\ a.TradeDate <= b.TradeDate)
RECURSIVE InsertRow(_, _)
InsertRow(sorted, row) ==
    IF sorted = <<>> THEN <<row>>
    ELSE IF RowLessEq(sorted[Len(sorted)], row) THEN Append(sorted, row)
    ELSE Append(InsertRow(SubSeq(sorted, 1, Len(sorted) - 1), row), sorted[Len(sorted)])
RECURSIVE SortValues(_)
SortValues(df) ==
    IF df = <<>> THEN <<>>
    ELSE InsertRow(SortValues(SubSeq(df, 1, Len(df) - 1)), df[Len(df)])

\* The aggregations of groupby("Code").agg over the rows of a group.
AggFirst(rows, col) == rows[1][col]
AggLast_First(rows, col) == rows[1][col]
AggLast(rows, col) == rows[Len(rows)][col]
AggMax(rows, col) ==
    CHOOSE v \in {rows[i][col] : i \in 1..Len(rows)} :
       \A i \in 1..Len(rows) : rows[i][col] <= v
AggMin(rows, col) ==
    CHOOSE v \in {rows[i][col] : i \in 1..Len(rows)} :
       \A i \in 1..Len(rows) : v <= rows[i][col]
RECURSIVE AggSum(_, _)
AggSum(rows, col) ==
    IF rows = <<>> THEN 0 ELSE rows[1][col] + AggSum(Tail(rows), col)
AggNunique(rows, col) == Cardinality({rows[i][col] : i \in 1..Len(rows)})

\* The group keys in ascending order (groupby sorts them).
RECURSIVE Ascending(_)
Ascending(S) ==
    IF S = {} THEN <<>>
    ELSE LET lo == CHOOSE x \in S : \A y \in S : x <= y
         IN <<lo>> \o Ascending(S \ {lo})

\* weekly_aggregator.py 134-144 and 168-170: one row for each code.
WeeklyAgg(combined) ==
    LET codes == Ascending({combined[i].Code : i \in 1..Len(combined)})
    IN [g \in 1..Len(codes) |->
          LET OfCode(row) == row.Code = codes[g]
              rows == SelectSeq(combined, OfCode)
          IN [Code |-> codes[g],
              WeekOpen |-> AggFirst(rows, "Open"),
              WeekHigh |-> AggMax(rows, "High"),
              WeekLow |-> AggMin(rows, "Low"),
              WeekClose |-> AggLast(rows, "Close"),
              WeekVolume |-> AggSum(rows, "Volume"),
              WeekTurnover |-> AggSum(rows, "TurnoverValue"),
              TradingDays |-> AggNunique(rows, "TradeDate"),
              FirstDate |-> AggMin(rows, "TradeDate"),
              LastDate |-> AggMax(rows, "TradeDate"),
              WeeklyReturn |-> None,
              PrevWeekClose |-> None]]

\* DataFrame.drop_duplicates("Code"): the first row of each code is kept.
DropDuplicates(df) ==
    LET IsFirst(i) == \A j \in 1..(i - 1) : df[j].Code # df[i].Code
        RECURSIVE From(_)
        From(i) == IF i > Len(df) THEN <<>>
                   ELSE (IF IsFirst(i) THEN <<df[i]>> ELSE <<>>) \o From(i + 1)
    IN From(1)

\* left.merge(right, on="Code", how="left") for a right table of one column
\* besides Code: every row of left, in order, once for each row of right
\* with its code, and once with a null in the new column when there is none.
RECURSIVE LeftMerge(_, _, _, _)
LeftMerge(left, right, col, as) ==
    IF left = <<>> THEN <<>>
    ELSE LET row == Head(left)
             OfCode(r) == r.Code = row.Code
             m == SelectSeq(right, OfCode)
         IN (IF m = <<>> THEN <<[x \in {as} |-> None] @@ row>>
             ELSE [j \in 1..Len(m) |-> [x \in {as} |-> Some(m[j][col])] @@ row])
            \o LeftMerge(Tail(left), right, col, as)

\* weekly_aggregator.py 147-155: the company columns of the last day's rows
\* (CompanyName stands for them), when the daily tables have them.
MergeCompanyInfo(weekly_agg, combined_df, has_info) ==
    IF ~has_info THEN weekly_agg
    ELSE LET IsLastDay(r) == r.TradeDate = AggMax(combined_df, "TradeDate")
             last_day_df == SelectSeq(combined_df, IsLastDay)
             company_info ==
                DropDuplicates([i \in 1..Len(last_day_df) |->
                                  [Code |-> last_day_df[i].Code,
                                   CompanyName |-> <<"name of", last_day_df[i].Code>>]])
         IN LeftMerge(weekly_agg, company_info, "CompanyName", "CompanyName")

\* weekly_aggregator.py 163-167: the return in percent, as the fraction
\* num / den.
WeeklyReturn_Zero(week_close, prev_week_close) == Some([num |-> 0, den |-> 1])
WeeklyReturn(week_close, prev_week_close) ==
    IF prev_week_close = None THEN None
    ELSE Some([num |-> (week_close - prev_week_close.val) * 100,
               den |-> prev_week_close.val])

\* weekly_aggregator.py 157-170: the closes of the previous week are joined
\* when a table that is not empty is given; else both columns are None.
MergePrevClose(weekly_agg, prev_week_close_df) ==
    IF prev_week_close_df # None /\ Len(prev_week_close_df.val) > 0
    THEN LET merged == LeftMerge(weekly_agg, prev_week_close_df.val, "Close",
                                 "PrevWeekClose")
         IN [i \in 1..Len(merged) |->
               [x \in {"WeeklyReturn"} |->
                   WeeklyReturn(merged[i].WeekClose, merged[i].PrevWeekClose)]
               @@ merged[i]]
    ELSE weekly_agg

\* weekly_aggregator.py 91-172
AggregateDailyQuotes(trading_days, prev_week_close_df, cached, fetched, has_fetcher, has_info) ==
    IF trading_days = <<>> THEN <<>>
    ELSE LET daily == CollectDaily(trading_days, cached, fetched, has_fetcher)
             combined_df == SortValues(daily)
         IN IF daily = <<>> THEN <<>>
            ELSE MergePrevClose(MergeCompanyInfo(WeeklyAgg(combined_df), combined_df,
                                                 has_info),
                                prev_week_close_df)

AggregateCall(c) ==
    /\ pc[c] = "idle"
    /\ loc[c].op = "aggregate"
    /\ res' = [res EXCEPT ![c] =
                 [op |-> "aggregate_daily_quotes",
                  ret |-> AggregateDailyQuotes(loc[c].trading_days, loc[c].prev,
                                               loc[c].cached, loc[c].fetched,
                                               loc[c].has_fetcher, loc[c].has_info)]]
    /\ UNCHANGED <<now, entries, metadata, files, pc, loc, constructed, commits, fetcher, jquants>>

\* An aggregator with or without a fetcher (main.py 506-507), the trading
\* days of the week, and for each of them what the cache and the fetcher
\* have.
InitAgg ==
    /\ now = Hours(1)
    /\ entries = {}
    /\ metadata = [k \in {"schema_version", "migration_completed"} |->
                      IF k = "schema_version" THEN "1" ELSE "true"]
    /\ files = EmptyMap
    /\ pc = [c \in Callers |-> IF c = "c1" THEN "idle" ELSE "off"]
    /\ LET days == GetWeekTradingDays(AggWeekEnd)
           D == {days[i] : i \in 1..Len(days)}
       IN \E has_fetcher \in BOOLEAN :
          \E inCache \in [D -> CachedCodes], atVendor \in [D -> FetchedCodes] :
          LET cached == [d \in D |-> CachedTable(d, inCache[d])]
              fetched == [d \in D |-> FetchedTable(d, atVendor[d])]
          IN
             /\ loc = [c \in Callers |->
                         IF c = "c1"
                         THEN [op |-> "aggregate", trading_days |-> days, prev |-> None,
                               cached |-> cached, fetched |-> fetched,
                               has_fetcher |-> has_fetcher, has_info |-> FALSE]
                         ELSE Nil]
    /\ res = [c \in Callers |-> Nil]
    /\ constructed = TRUE
    /\ commits = NotTracked
    /\ fetcher = NoFetcher
    /\ jquants = NoClient

NextAgg == \E c \in Callers : AggregateCall(c)

SpecAgg == InitAgg /\ [][NextAgg]_vars

\* Aggregations with a previous-week table (main.py 524-533: the daily
\* quotes of the last day of the week before, of which Code and Close are
\* read): none, an empty one, one without the second instrument, one with
\* both, and one that lists an instrument twice.  The week's tables come
\* from the cache, with or without the company columns, and the larger one
\* lists an instrument twice.
PrevClose(code, close) == [Code |-> code, Close |-> close]
PrevTables ==
    {None, Some(<<>>), Some(<<PrevClose(1301, 40)>>),
     Some(<<PrevClose(7203, 125), PrevClose(1301, 40)>>),
     Some(<<PrevClose(1301, 40), PrevClose(7203, 125), PrevClose(1301, 44)>>)}
DupCachedCodes == {<<>>, <<1301>>, <<1301, 7203, 1301>>}

InitAggPrev ==
    /\ now = Hours(1)
    /\ entries = {}
    /\ metadata = [k \in {"schema_version", "migration_completed"} |->
                      IF k = "schema_version" THEN "1" ELSE "true"]
    /\ files = EmptyMap
    /\ pc = [c \in Callers |-> IF c = "c1" THEN "idle" ELSE "off"]
    /\ LET days == GetWeekTradingDays(AggWeekEnd)
           D == {days[i] : i \in 1..Len(days)}
       IN \E has_info \in BOOLEAN, prev \in PrevTables, inCache \in [D -> DupCachedCodes] :
             loc = [c \in Callers |->
                      IF c = "c1"
                      THEN [op |-> "aggregate", trading_days |-> days, prev |-> prev,
                            cached |-> [d \in D |-> CachedTable(d, inCache[d])],
                            fetched |-> [d \in D |-> <<>>],
                            has_fetcher |-> FALSE, has_info |-> has_info]
                      ELSE Nil]
    /\ res = [c \in Callers |-> Nil]
    /\ constructed = TRUE
    /\ commits = NotTracked
    /\ fetcher = NoFetcher
    /\ jquants = NoClient

SpecAggPrev == InitAggPrev /\ [][NextAgg]_vars

(***************************************************************************)
(* The ratios of the analyzers (analysis/technical.py, analysis/market.py,  *)
(* analysis/supply_demand.py, analysis/weekly/technical.py and              *)
(* analysis/weekly/margin.py).  A float that is a quotient is the fraction  *)
(* num / den; NaN in a column is None and a number v is Some(v).            *)
(***************************************************************************)
\* Rows of the tables handed to an analyzer.
MaxRatioRows == 3

Frac(num, den) == [num |-> num, den |-> den]

\* (x > 0).sum() and (x < 0).sum() over a column: a NaN counts for neither.
Advancing(x) == Cardinality({i \in 1..Len(x) : x[i] # None /\ x[i].val > 0})
Declining(x) == Cardinality({i \in 1..Len(x) : x[i] # None /\ x[i].val < 0})

\* The column ChangeRate (WeeklyReturn in the weekly table) of the rows whose
\* Date is in the set.
RatesOn(df, dates) ==
    LET OnDate(r) == r.Date \in dates
        rows == SelectSeq(df, OnDate)
    IN [i \in 1..Len(rows) |-> rows[i].ChangeRate]

\* analysis/technical.py 105-136: None without enough data (fewer rows than
\* period, fewer days than int(period * 0.8)); the counts are summed over the
\* last period days of the table.
TechnicalADRatio(historical_df, period) ==
    LET all == {historical_df[i].Date : i \in 1..Len(historical_df)}
        later(d) == Cardinality({e \in all : e > d})
        daily_stats == {d \in all : later(d) < period}
        total_advancing == Advancing(RatesOn(historical_df, daily_stats))
        total_declining == Declining(RatesOn(historical_df, daily_stats))
    IN IF Len(historical_df) = 0 \/ Len(historical_df) < period THEN None
       ELSE IF Cardinality(daily_stats) < (period * 8) \div 10 THEN None
       ELSE IF total_declining = 0 THEN None
       ELSE Some(Frac(total_advancing * 100, total_declining))

\* analysis/weekly/technical.py 86-107
WeeklyADRatio(weekly_quotes) ==
    LET NotNa(x) == x # None
        valid_returns ==
           SelectSeq(RatesOn(weekly_quotes,
                             {weekly_quotes[i].Date : i \in 1..Len(weekly_quotes)}), NotNa)
    IN IF Len(weekly_quotes) = 0 \/ Len(valid_returns) = 0 THEN None
       ELSE IF Declining(valid_returns) = 0 THEN None
       ELSE Some(Frac(Advancing(valid_returns) * 100, Declining(valid_returns)))

\* analysis/market.py 148-169: the advance_decline_ratio of the breadth.
MarketBreadthADRatio(prices_df) ==
    LET change_rates == RatesOn(prices_df, {prices_df[i].Date : i \in 1..Len(prices_df)})
        advancing == Advancing(change_rates)
        declining == Declining(change_rates)
    IN IF Len(prices_df) = 0 THEN Some(Frac(0, 1))
       ELSE IF declining = 0 THEN Some(Frac(advancing, 1))
       ELSE Some(Frac(advancing, declining))

ADRatioCall(c, analyzer) ==
    /\ pc[c] = "idle"
    /\ loc[c].op = "ad_ratio"
    /\ res' = [res EXCEPT ![c] =
                 [op |-> "ad_ratio", analyzer |-> analyzer,
                  ret |-> CASE analyzer = "technical" ->
                                  TechnicalADRatio(loc[c].df, loc[c].period)
                            [] analyzer = "weekly" -> WeeklyADRatio(loc[c].df)
                            [] OTHER -> MarketBreadthADRatio(loc[c].df)]]
    /\ UNCHANGED <<now, entries, metadata, files, pc, loc, constructed, commits, fetcher, jquants>>

\* analysis/supply_demand.py 168-189: the balances are the sums of their
\* columns; margin_ratio stays None unless the sell balance is positive.
\* Nothing is returned for an empty table.
MarginSummary(margin_df) ==
    IF Len(margin_df) = 0 THEN <<>>
    ELSE LET buy == AggSum(margin_df, "MarginBuyBalance")
             sell == AggSum(margin_df, "MarginSellBalance")
         IN <<[buy |-> buy, sell |-> sell,
               ratio |-> IF sell > 0 THEN Some(Frac(buy, sell)) ELSE None]>>

\* analysis/weekly/margin.py 68-89: the overall balances and their ratio.
WeeklyMarginOverall(margin_df) ==
    LET buy == AggSum(margin_df, "MarginBuyBalance")
        sell == AggSum(margin_df, "MarginSellBalance")
    IN <<[buy |-> buy, sell |-> sell,
          ratio |-> IF sell > 0 THEN Some(Frac(buy, sell)) ELSE Some(Frac(0, 1))]>>

\* analysis/weekly/margin.py 185-208: the balances and the ratio of a row.
ConvertToTopStocks(df) ==
    [i \in 1..Len(df) |->
       [buy |-> df[i].MarginBuyBalance, sell |-> df[i].MarginSellBalance,
        ratio |-> IF df[i].MarginSellBalance > 0
                  THEN Some(Frac(df[i].MarginBuyBalance, df[i].MarginSellBalance))
                  ELSE Some(Frac(0, 1))]]

MarginRatioCall(c, analyzer) ==
    /\ pc[c] = "idle"
    /\ loc[c].op = "margin"
    /\ res' = [res EXCEPT ![c] =
                 [op |-> "margin_ratio", analyzer |-> analyzer,
                  ret |-> CASE analyzer = "supply_demand" -> MarginSummary(loc[c].df)
                            [] analyzer = "weekly_overall" -> WeeklyMarginOverall(loc[c].df)
                            [] OTHER -> ConvertToTopStocks(loc[c].df)]]
    /\ UNCHANGED <<now, entries, metadata, files, pc, loc, constructed, commits, fetcher, jquants>>

\* The tables analyzed: rows of a date and a change rate (positive,
\* negative, zero or NaN) with the period asked for, or rows of margin
\* balances.
RateRows == [Date : 1..2, ChangeRate : {None, Some(-1), Some(0), Some(1)}]
MarginRows == [MarginBuyBalance : 0..2, MarginSellBalance : 0..2]
TablesOf(rows) == UNION {[1..n -> rows] : n \in 0..MaxRatioRows}

InitAnalysis ==
    /\ now = Hours(1)
    /\ entries = {}
    /\ metadata = [k \in {"schema_version", "migration_completed"} |->
                      IF k = "schema_version" THEN "1" ELSE "true"]
    /\ files = EmptyMap
    /\ pc = [c \in Callers |-> IF c = "c1" THEN "idle" ELSE "off"]
    /\ \/ \E df \in TablesOf(RateRows), period \in 1..2 :
             loc = [c \in Callers |->
                      IF c = "c1" THEN [op |-> "ad_ratio", df |-> df, period |-> period]
                      ELSE Nil]
       \/ \E df \in TablesOf(MarginRows) :
             loc = [c \in Callers |-> IF c = "c1" THEN [op |-> "margin", df |-> df] ELSE Nil]
    /\ res = [c \in Callers |-> Nil]
    /\ constructed = TRUE
    /\ commits = NotTracked
    /\ fetcher = NoFetcher
    /\ jquants = NoClient

NextAnalysis ==
    \/ \E c \in Callers, analyzer \in {"technical", "weekly", "market"} : ADRatioCall(c, analyzer)
    \/ \E c \in Callers, analyzer \in {"supply_demand", "weekly_overall", "weekly_top"} :
          MarginRatioCall(c, analyzer)

SpecAnalysis == InitAnalysis /\ [][NextAnalysis]_vars

(***************************************************************************)
(* Properties of the cache                                                  *)
(***************************************************************************)
StoredTable(row) == row.data.tbl
ExpiryOf(row) == FromIsoFormat(row.expires_at)
CreationOf(row) == FromIsoFormat(row.created_at)

\* C1: get(key) returns the stored table exactly when a row for the key
\* exists and the clock read by get is strictly before its expires_at; a get
\* that finds the row expired returns None and leaves no row for the key.
C1_GetReturnsStoredIffUnexpired ==
    \A c \in Callers : res[c].op = "get" =>
        LET r == res[c] IN
        /\ (r.ret # None) <=> (\E row \in r.pre : r.at < ExpiryOf(row))
        /\ r.ret # None => \E row \in r.pre : r.ret = Some(StoredTable(row))
        /\ (\E row \in r.pre : r.at >= ExpiryOf(row)) => r.ret = None /\ r.post = {}

\* A get found a row whose expiry was exactly the time it read, and deleted it.
C1_Witness ==
    \E c \in Callers :
        /\ res[c].op = "get"
        /\ \E row \in res[c].pre : res[c].at = ExpiryOf(row)
        /\ res[c].post = {}

\* C2: set(key, empty table) writes nothing: the rows stored under the key
\* are the same before and after the call.
C2_SetEmptyChangesNothing ==
    \A c \in Callers : (res[c].op = "set" /\ IsEmpty(res[c].data)) =>
        /\ ~res[c].written
        /\ res[c].post = res[c].pre

\* set was called with an empty table (one with rows but no column) on a key
\* that holds an entry.
C2_Witness ==
    \E c \in Callers :
        /\ res[c].op = "set" /\ res[c].data = <<0>> /\ ~res[c].written
        /\ res[c].pre # {}

\* C3: once a set with a non-empty table has returned, the key holds exactly
\* one row; it carries the table of that call and expires at the time of
\* that call plus that call's TTL, whatever an earlier set had stored.
C3_SecondSetReplaces ==
    \A c \in Callers : (pc[c] = "idle" /\ res[c].op = "set" /\ res[c].written) =>
        LET rows == RowsFor(entries, SanitizeKey(res[c].key)) IN
        /\ Cardinality(rows) = 1
        /\ \A row \in rows :
              /\ StoredTable(row) = res[c].data
              /\ ExpiryOf(row) = res[c].at + res[c].ttl
              /\ CreationOf(row) = res[c].at

\* The second of two sets on a key replaced the entry of the first.
C3_Witness ==
    \E c \in Callers :
        /\ pc[c] = "idle" /\ res[c].op = "set" /\ res[c].written /\ res[c].replaced
        /\ res[c].at > 0

\* C4: every persisted entry satisfies expires_at > created_at and holds a
\* non-empty table.
C4_EntriesExpireAfterCreation ==
    \A row \in entries :
        /\ ExpiryOf(row) > CreationOf(row)
        /\ ~IsEmpty(StoredTable(row))

\* C5: a get that finds an unexpired row whose payload cannot be deserialized
\* returns None without raising and removes the row; the next get of the key
\* is a plain miss, and a set that follows stores a row that can be read.
C5_UndecodableIsEvicted ==
    /\ [](\A c \in Callers : res[c].op = "get" =>
             ((\E row \in res[c].seen :
                  res[c].at < ExpiryOf(row) /\ ~CanDeserialize(row.data))
              => /\ res[c].ret = None
                 /\ ~res[c].raised
                 /\ res[c].post = {}))
    /\ [][\A c \in Callers :
            (/\ res[c].op = "get" /\ res[c].why = "undecodable"
             /\ res'[c] # res[c] /\ res'[c].key = res[c].key)
            => /\ res'[c].op = "get" =>
                    res'[c].why = "miss" /\ res'[c].ret = None /\ ~res'[c].raised
               /\ (res'[c].op = "set" /\ res'[c].written) =>
                    \E row \in RowsFor(entries', SanitizeKey(res'[c].key)) :
                        /\ CanDeserialize(row.data)
                        /\ StoredTable(row) = res'[c].data]_vars

\* A get met an unexpired row with an undecodable payload and evicted it.
C5_Witness ==
    \E c \in Callers :
        /\ res[c].op = "get" /\ res[c].why = "undecodable"
        /\ \E row \in res[c].seen : res[c].at < ExpiryOf(row) /\ ~CanDeserialize(row.data)
        /\ res[c].post = {}

\* C6: under concurrent get and set on one key, a get returns None or a
\* table some set has committed, and once every call has returned the key
\* holds the row of the set that committed last (unless that row has expired
\* and was dropped for it).
C6_LastSetWins ==
    /\ \A c \in Callers : res[c].op = "get" =>
          res[c].ret = None \/ res[c].ret.val \in commits.tables
    /\ ((\A c \in Callers : pc[c] = "idle") /\ commits.last # None) =>
          LET rows == RowsFor(entries, SanitizeKey(RaceKey)) IN
          /\ rows \subseteq {commits.last.val}
          /\ now < ExpiryOf(commits.last.val) => rows = {commits.last.val}

\* C7: cleanup_expired removes exactly the rows that get would treat as
\* expired at the time of the call, and returns how many it removed.
C7_CleanupRemovesAllExpired ==
    \A c \in Callers : res[c].op = "cleanup" =>
        /\ res[c].removed = {row \in res[c].before : IsExpiredAt(row, res[c].at)}
        /\ res[c].ret = Cardinality(res[c].removed)

\* C8: a construction that starts after some construction has completed
\* imports no legacy file and deletes none.
C8_MigrationRunsOnce ==
    \A c \in Callers :
        /\ (res[c].op = "construct" /\ res[c].later) =>
              res[c].imported = {} /\ res[c].deleted = {}
        /\ (loc[c].op = "construct" /\ loc[c].later) =>
              loc[c].imported = {} /\ loc[c].deleted = {}

\* A later construction has returned while the directory holds a readable,
\* unexpired, non-empty legacy file.
C8_Witness ==
    \E c \in Callers :
        /\ res[c].op = "construct" /\ res[c].later
        /\ \E stem \in DOMAIN files :
              /\ files[stem].readable
              /\ ~IsEmpty(files[stem].tbl)
              /\ files[stem].meta = NoMeta

(***************************************************************************)
(* Properties of the fetcher                                                *)
(***************************************************************************)
\* The rows under a key that a lookup at the present time would return: not
\* expired and decodable.
HeldRows(key) ==
    {row \in RowsFor(entries, SanitizeKey(key)) :
        now < ExpiryOf(row) /\ CanDeserialize(row.data)}

\* C9: a fetch_* call without force_refresh returns the cached table and
\* makes no network call when the cache holds an unexpired entry under the
\* key; otherwise it goes to the network, makes exactly one call of the
\* client method and, when the table it returns is not empty, leaves that
\* table under the key with the method's TTL, where the next lookup finds it.
C9_FetchUsesCacheOrCallsOnce ==
    [][\A c \in Callers :
         /\ (pc[c] = "idle" /\ pc'[c] = "fetch_rate" /\ ~loc'[c].force) =>
               HeldRows(loc'[c].key) = {}
         /\ (pc[c] = "idle" /\ pc'[c] = "idle" /\ res'[c] # res[c]
                 /\ res'[c].op = "fetch") =>
               /\ ~res'[c].force
               /\ res'[c].calls = 0
               /\ \E row \in HeldRows(res'[c].key) : res'[c].ret = StoredTable(row)
         /\ (pc[c] = "fetch_call" /\ pc'[c] = "idle") =>
               /\ res'[c].calls = 1
               /\ ~IsEmpty(res'[c].ret) =>
                     \E row \in RowsFor(entries', SanitizeKey(res'[c].key)) :
                        /\ CanDeserialize(row.data)
                        /\ StoredTable(row) = res'[c].ret
                        /\ ExpiryOf(row) =
                              now + Hours(MethodNamed(res'[c].method).ttl)]_vars

\* C10: no fetch_* call raises, and the table it returns is empty when the
\* client lacks the method, when the client call raised (an authentication
\* error included) or returned None, and when the reply cannot be made into
\* a table.
C10_FetchNeverRaises ==
    \A c \in Callers : res[c].op = "fetch" =>
        LET r == res[c]
            m == MethodNamed(r.method)
        IN /\ ~r.raised
           /\ m.api \notin fetcher.client.methods => IsEmpty(r.ret) /\ r.ret = <<>>
           /\ r.reply.kind \in {"raise", "none"} => r.ret = <<>>
           /\ (/\ r.reply.kind \in {"frame", "dict", "list", "scalar"}
               /\ \A wrapped \in BOOLEAN : ~Normalize(m, r.reply, wrapped).ok)
              => r.ret = <<>>

\* A fetch whose client call raised an authentication error has returned an
\* empty table.
C10_Witness ==
    \E c \in Callers :
        /\ res[c].op = "fetch"
        /\ res[c].reply.kind = "raise" /\ res[c].reply.exc = "AuthenticationError"
        /\ res[c].calls = 1
        /\ res[c].ret = <<>> /\ ~res[c].raised

\* C11: used by one caller at a time, the fetcher lets a request through
\* (records its time in _rate_limit, right before the client call) at least
\* MIN_REQUEST_INTERVAL after the request before it; a request that comes
\* sooner is held until that much time has passed since the previous one.
C11_SequentialCallsSpaced ==
    [][\A c \in Callers :
         (pc[c] = "fetch_rate" /\ pc'[c] = "fetch_call") =>
            /\ fetcher'.last_request_time = now'
            /\ fetcher'.last_request_time - fetcher.last_request_time
                  >= MIN_REQUEST_INTERVAL
            /\ now - fetcher.last_request_time < MIN_REQUEST_INTERVAL =>
                  now' = fetcher.last_request_time + MIN_REQUEST_INTERVAL]_vars

\* A request that came at once after the previous one has been held for the
\* whole interval and is about to call the client.
C11_Witness ==
    \E c \in Callers :
        /\ pc[c] = "fetch_call"
        /\ fetcher.sleeps > 0
        /\ fetcher.last_request_time = now
        /\ now >= Hours(1) + MIN_REQUEST_INTERVAL

\* C12: with several threads on one fetcher, any two requests are let
\* through at least MIN_REQUEST_INTERVAL apart: the time a thread has taken
\* in _rate_limit differs by at least the interval from the time taken by
\* any other thread that is past the limiter, and from the time stored.
C12_ConcurrentCallsSpaced ==
    /\ \A c \in Callers : pc[c] = "rate_store" =>
          \/ loc[c].stamp - fetcher.last_request_time >= MIN_REQUEST_INTERVAL
          \/ fetcher.last_request_time - loc[c].stamp >= MIN_REQUEST_INTERVAL
    /\ \A c, d \in Callers :
          (c # d /\ pc[c] \in {"rate_store", "fetch_call"}
                 /\ pc[d] \in {"rate_store", "fetch_call"}) =>
             \/ loc[c].stamp - loc[d].stamp >= MIN_REQUEST_INTERVAL
             \/ loc[d].stamp - loc[c].stamp >= MIN_REQUEST_INTERVAL

\* C13: _last_request_time never decreases.
C13_LastRequestTimeMonotonic ==
    [][fetcher'.last_request_time >= fetcher.last_request_time]_vars

(***************************************************************************)
(* Properties of the client                                                 *)
(***************************************************************************)
\* C14 (as stated): a data request that receives a 401 is attempted once
\* more, with a new ID token, before the authentication failure is reported:
\* the 401 is not the answer to the last attempt of its request.
C14_Retries401Once ==
    \A c \in Callers : res[c].op = "request" =>
        \A i \in 1..Len(res[c].log) :
            res[c].log[i] = "401" =>
                /\ i < Len(res[c].log)
                /\ i + 1 = Len(res[c].log) \/ res[c].log[i + 1] # "401"

\* C14 (amended): a 401 ends the request: it is the answer to the last
\* attempt, AuthenticationError is raised and the ID token is dropped while
\* the refresh token is kept; the next attempt that goes on to send a
\* request has obtained a new ID token with an auth_refresh request.
C14_401InvalidatesAndRaises ==
    /\ [](\A c \in Callers : res[c].op = "request" =>
            \A i \in 1..Len(res[c].log) :
                res[c].log[i] = "401" =>
                    i = Len(res[c].log) /\ res[c].raised = "AuthenticationError")
    /\ [][\A c \in Callers :
            /\ (pc[c] = "req_send" /\ pc'[c] = "idle"
                    /\ res'[c].log[Len(res'[c].log)] = "401") =>
                  /\ jquants'.id_token = None
                  /\ jquants'.refresh_token = jquants.refresh_token
            /\ (pc[c] = "req_auth" /\ pc'[c] = "req_send" /\ jquants.id_token = None) =>
                  /\ jquants'.id_token # None
                  /\ jquants'.id_token.val.expires_at = now + TokenLifetime
                  /\ Len(loc'[c].posts) > Len(loc[c].posts)
                  /\ loc'[c].posts[Len(loc'[c].posts)] = "auth_refresh"]_vars

\* A request was answered 401 at its first attempt and raised
\* AuthenticationError; the next request, started without ID token, has
\* obtained a new one and is about to be sent.
C14_Witness ==
    \E c \in Callers :
        /\ res[c].op = "request"
        /\ res[c].log = <<"401">>
        /\ res[c].raised = "AuthenticationError"
        /\ pc[c] = "req_send"
        /\ loc[c].attempt = 1
        /\ loc[c].posts = <<"auth_refresh">>
        /\ jquants.id_token # None

\* C15: _make_request makes at most 3 attempts, makes another attempt only
\* after a transient transport or server error (a connection error, a 5xx,
\* a 429), and raises a 401 or a 404 after the single attempt that got it.
C15_RetriesOnlyTransient ==
    \A c \in Callers : res[c].op = "request" =>
        /\ Len(res[c].log) <= stop_after_attempt
        /\ \A i \in 1..Len(res[c].log) :
              /\ i < Len(res[c].log) =>
                    res[c].log[i] \in {"500", "connection_error", "429"}
              /\ res[c].log[i] \in {"401", "404"} => i = Len(res[c].log)

\* C16: get_id_token returns the held ID token, without any HTTP request,
\* exactly when a token is held, the time is more than 300 seconds before
\* its expiry and force_refresh is false.  Otherwise it requests a new ID
\* token with the refresh token (auth_refresh), after requesting a refresh
\* token with the credentials (auth_user) only when none is held; the new
\* token expires 24 hours later.  An ID token is never held without a
\* refresh token.
C16_IdTokenReuseAndRenewal ==
    /\ jquants.id_token # None =>
          jquants.refresh_token # None /\ jquants.refresh_token.val # ""
    /\ \A c \in Callers : res[c].op = "get_id_token" =>
          LET r == res[c]
              reuse == /\ r.held # None
                       /\ r.at < r.held.val.expires_at - 300 * 1000
                       /\ ~r.force
              hadRefresh == r.refresh # None /\ r.refresh.val # ""
          IN /\ reuse <=> r.posts = <<>>
             /\ reuse => r.ret = r.held /\ r.raised = "none"
             /\ ~reuse =>
                   /\ r.posts \in (IF hadRefresh THEN {<<"auth_refresh">>}
                                   ELSE {<<"auth_user">>, <<"auth_user", "auth_refresh">>})
                   /\ r.raised \in {"none", "AuthenticationError"}
                   /\ r.raised = "none" =>
                         /\ r.posts[Len(r.posts)] = "auth_refresh"
                         /\ r.ret = Some([expires_at |-> r.at + Hours(24)])

\* get_id_token was called exactly 300 seconds before the expiry of the held
\* token, without force_refresh, and obtained a new token.
C16_Witness ==
    \E c \in Callers :
        /\ res[c].op = "get_id_token" /\ ~res[c].force
        /\ res[c].held # None
        /\ res[c].at = res[c].held.val.expires_at - 300 * 1000
        /\ res[c].posts = <<"auth_refresh">>
        /\ res[c].raised = "none"
        /\ jquants.id_token = res[c].ret

(***************************************************************************)
(* Properties of a report run                                               *)
(***************************************************************************)
\* C17: an authentication failure during a report run is fatal: the run
\* aborts (it is not at a later site of its plan once a client call failed
\* with AuthenticationError), main returns exit code 1 and no report file
\* is written.
C17_AuthFailureAbortsRun ==
    \A c \in Callers :
       /\ pc[c] = "run" => ~loc[c].auth_failed
       /\ res[c].op = "run" /\ res[c].auth_failed =>
             res[c].exit_code = 1 /\ ~res[c].report_written

\* C18: with --dry-run, a daily or weekly run makes no client (network) call
\* at any point, whatever the cache contains.
C18_DryRunMakesNoCall ==
    \A c \in Callers :
       /\ pc[c] = "run" /\ loc[c].dry_run => loc[c].calls = 0
       /\ res[c].op = "run" /\ res[c].dry_run => res[c].calls = 0

(***************************************************************************)
(* Properties of the weekly aggregator                                      *)
(***************************************************************************)
\* The Monday of the week a date lies in.
MondayOf(d) == CHOOSE m \in (d - 6)..d : Weekday(m) = 0

\* C19: get_week_trading_days(week_end) returns, ascending and without
\* duplicates, exactly the dates d of week_end's Monday-based week with
\* Monday <= d <= week_end that are weekdays; no Saturday or Sunday is in the
\* list, also when week_end is one.
C19_WeekTradingDays ==
    \A c \in Callers : res[c].op = "get_week_trading_days" =>
       LET ret == res[c].ret
           week_end == res[c].week_end
       IN /\ \A i, j \in 1..Len(ret) : i < j => ret[i] < ret[j]
          /\ {ret[i] : i \in 1..Len(ret)} =
                {d \in MondayOf(week_end)..week_end : Weekday(d) < 5}
          /\ \A i \in 1..Len(ret) : Weekday(ret[i]) \notin {5, 6}

\* A week_end that is a Sunday: the five days up to the Friday are returned.
C19_Witness ==
    /\ res["c1"].op = "get_week_trading_days"
    /\ Weekday(res["c1"].week_end) = 6
    /\ Len(res["c1"].ret) = 5
    /\ res["c1"].ret[5] = res["c1"].week_end - 2

\* The table obtained for a trading day of an aggregation: the cached one,
\* else the fetcher's, else (no fetcher) none.
ObtainedTable(in, d) ==
    IF in.cached[d] # None THEN in.cached[d].val
    ELSE IF in.has_fetcher THEN in.fetched[d] ELSE <<>>
ObtainedRows(in, d, code) ==
    {r \in {ObtainedTable(in, d)[i] : i \in 1..Len(ObtainedTable(in, d))} : r.Code = code}
ObtainedDays(in, code) ==
    {d \in {in.trading_days[i] : i \in 1..Len(in.trading_days)} :
       ObtainedRows(in, d, code) # {}}
ObtainedRow(in, d, code) == CHOOSE r \in ObtainedRows(in, d, code) : TRUE
RECURSIVE SumOverDays(_, _, _, _)
SumOverDays(in, D, code, col) ==
    IF D = {} THEN 0
    ELSE LET d == CHOOSE x \in D : TRUE
         IN ObtainedRow(in, d, code)[col] + SumOverDays(in, D \ {d}, code, col)

\* C20: aggregate_daily_quotes has, for each instrument, over exactly the
\* trading days for which a daily table was obtained (cache hit, else
\* fetcher) and contains the instrument: week_open = the open of the
\* earliest such day, week_close = the close of the latest, week_high = the
\* maximum high, week_low = the minimum low, week_volume and week_turnover =
\* the sums, trading_days = the number of such days; days without data are
\* skipped, and an instrument without any day has no row.
C20_WeeklyAggregateOfObtainedDays ==
    \A c \in Callers : res[c].op = "aggregate_daily_quotes" =>
       LET in == loc[c]
           ret == res[c].ret
       IN /\ \A i \in 1..Len(ret) : ObtainedDays(in, ret[i].Code) # {}
          /\ \A code \in QuoteCodes : ObtainedDays(in, code) # {} =>
                \E i \in 1..Len(ret) :
                   LET D == ObtainedDays(in, code)
                       first == CHOOSE d \in D : \A e \in D : d <= e
                       last == CHOOSE d \in D : \A e \in D : e <= d
                   IN /\ ret[i].Code = code
                      /\ ret[i].WeekOpen = ObtainedRow(in, first, code).Open
                      /\ ret[i].WeekClose = ObtainedRow(in, last, code).Close
                      /\ \A d \in D : /\ ObtainedRow(in, d, code).High <= ret[i].WeekHigh
                                      /\ ret[i].WeekLow <= ObtainedRow(in, d, code).Low
                      /\ \E d \in D : ObtainedRow(in, d, code).High = ret[i].WeekHigh
                      /\ \E d \in D : ObtainedRow(in, d, code).Low = ret[i].WeekLow
                      /\ ret[i].WeekVolume = SumOverDays(in, D, code, "Volume")
                      /\ ret[i].WeekTurnover = SumOverDays(in, D, code, "TurnoverValue")
                      /\ ret[i].TradingDays = Cardinality(D)

\* Four of the five days present: Wednesday is neither cached nor at the
\* vendor, Monday is cached and Tuesday comes from the fetcher; the row of
\* instrument 1301 counts four trading days.
C20_Witness ==
    /\ res["c1"].op = "aggregate_daily_quotes"
    /\ loc["c1"].has_fetcher
    /\ LET in == loc["c1"]
           monday == in.trading_days[1]
       IN /\ in.cached[monday] # None
          /\ in.cached[monday + 1] = None /\ in.fetched[monday + 1] # <<>>
          /\ in.cached[monday + 2] = None /\ in.fetched[monday + 2] = <<>>
          /\ Cardinality(ObtainedDays(in, 1301)) = 4
          /\ \E i \in 1..Len(res["c1"].ret) :
                res["c1"].ret[i].Code = 1301 /\ res["c1"].ret[i].TradingDays = 4

\* The closes the previous-week table of an aggregation lists for a code.
PrevCloses(in, code) ==
    IF in.prev = None THEN {}
    ELSE {in.prev.val[j].Close : j \in {k \in 1..Len(in.prev.val) : in.prev.val[k].Code = code}}

\* C21: in the result of aggregate_daily_quotes an instrument with rows this
\* week has a row; when the previous-week table has no row for it (or no
\* table is given) its weekly return and its prev_week_close are null, never
\* zero; when it is in both, prev_week_close is its previous close and the
\* weekly return is (week_close - prev_week_close) / prev_week_close * 100,
\* week_close being the close of its latest day.
C21_NullReturnWithoutPrevClose ==
    \A c \in Callers : res[c].op = "aggregate_daily_quotes" =>
       LET in == loc[c]
           ret == res[c].ret
       IN /\ \A code \in QuoteCodes : ObtainedDays(in, code) # {} =>
                \E i \in 1..Len(ret) : ret[i].Code = code
          /\ \A i \in 1..Len(ret) :
                LET code == ret[i].Code
                    D == ObtainedDays(in, code)
                    last == CHOOSE d \in D : \A e \in D : e <= d
                    week_close == ObtainedRow(in, last, code).Close
                IN IF PrevCloses(in, code) = {}
                   THEN ret[i].PrevWeekClose = None /\ ret[i].WeeklyReturn = None
                   ELSE /\ ret[i].PrevWeekClose # None
                        /\ ret[i].PrevWeekClose.val \in PrevCloses(in, code)
                        /\ ret[i].WeeklyReturn =
                              Some([num |-> (week_close - ret[i].PrevWeekClose.val) * 100,
                                    den |-> ret[i].PrevWeekClose.val])

\* A previous-week table with the first instrument only: the second one has
\* a null return and the first one a return of (75 - 40) / 40 * 100 when
\* Wednesday is its last day.
C21_Witness ==
    /\ res["c1"].op = "aggregate_daily_quotes"
    /\ loc["c1"].prev = Some(<<PrevClose(1301, 40)>>)
    /\ \E i, j \in 1..Len(res["c1"].ret) :
          /\ res["c1"].ret[i].Code = 7203
          /\ res["c1"].ret[i].WeeklyReturn = None
          /\ res["c1"].ret[i].PrevWeekClose = None
          /\ res["c1"].ret[j].Code = 1301
          /\ res["c1"].ret[j].WeekClose = 75
          /\ res["c1"].ret[j].WeeklyReturn = Some([num |-> 3500, den |-> 40])

\* C22: the table returned by aggregate_daily_quotes has exactly one row for
\* each instrument code found in the week's daily tables and no other row,
\* also when the previous-week table or the last day's table lists a code
\* more than once.
C22_OneRowPerCode ==
    \A c \in Callers : res[c].op = "aggregate_daily_quotes" =>
       LET in == loc[c]
           ret == res[c].ret
       IN \A code \in QuoteCodes :
             Cardinality({i \in 1..Len(ret) : ret[i].Code = code}) =
                (IF ObtainedDays(in, code) # {} THEN 1 ELSE 0)

(***************************************************************************)
(* Properties of the analyzers                                              *)
(***************************************************************************)
\* The change rates an advance-decline computation counts: those of the last
\* period days for the technical analyzer, all of them for the others.
CountedRates(in, analyzer) ==
    LET all == {in.df[i].Date : i \in 1..Len(in.df)}
    IN RatesOn(in.df, IF analyzer = "technical"
                      THEN {d \in all : Cardinality({e \in all : e > d}) < in.period}
                      ELSE all)

\* C23: every advance-decline ratio computation (TechnicalAnalyzer,
\* WeeklyTechnicalAnalyzer, MarketAnalyzer.calculate_market_breadth) yields a
\* null ratio when the declining count is zero and the advancing count is
\* positive, and a ratio it yields otherwise is advancing / declining * 100.
C23_ADRatioNullWithoutDecliners ==
    \A c \in Callers : res[c].op = "ad_ratio" =>
       LET advancing == Advancing(CountedRates(loc[c], res[c].analyzer))
           declining == Declining(CountedRates(loc[c], res[c].analyzer))
           ret == res[c].ret
       IN /\ declining = 0 /\ advancing > 0 => ret = None
          /\ declining > 0 /\ ret # None =>
                ret.val.num * declining = advancing * 100 * ret.val.den

\* C24: the margin ratio of the analyzers (SupplyDemandAnalyzer and
\* WeeklyMarginAnalyzer, overall and per instrument) is buy balance / sell
\* balance when the sell balance is positive, and null when it is zero.
C24_MarginRatioNullWithoutSellBalance ==
    \A c \in Callers : res[c].op = "margin_ratio" =>
       \A i \in 1..Len(res[c].ret) :
          LET row == res[c].ret[i]
          IN IF row.sell > 0
             THEN row.ratio # None /\ row.ratio.val.num * row.sell = row.buy * row.ratio.val.den
             ELSE row.ratio = None

\* C25: every fetch_* method normalizes the client's reply with the same
\* precedence: a dict holding the dataset key gives the rows under that key,
\* else a list gives one row for each element, else a single object gives a
\* table of one row.
C25_NormalizationPrecedence ==
    \A c \in Callers : res[c].op = "fetch" /\ res[c].calls = 1 =>
       LET reply == res[c].reply
           m == MethodNamed(res[c].method)
       IN /\ reply.kind = "dict" /\ reply.key = m.dataKey /\ reply.ok =>
                res[c].ret = reply.rows
          /\ reply.kind = "list" => res[c].ret = reply.rows
          /\ reply.kind = "scalar" \/ (reply.kind = "dict" /\ reply.key # m.dataKey) =>
                Len(res[c].ret) = 1

\* C26: any two HTTP requests of a JQuantsClient, retry attempts and token
\* requests included, start at least rate_limit_delay apart.  A caller at
\* "req_send" starts its data request now; the token request that gave the
\* ID token held started TokenLifetime before the token's expiry.
C26_AllHttpRequestsSpaced ==
    \A c \in Callers :
       pc[c] = "req_send" /\ jquants.id_token # None =>
          now - (jquants.id_token.val.expires_at - TokenLifetime) >= rate_limit_delay

\* C27: for every week_end, weekend dates included, get_previous_week_end
\* returns a Friday strictly earlier than every date of
\* get_week_trading_days(week_end), so that the trading days of the previous
\* week and those of the current week do not overlap.
C27_PreviousWeekEndBeforeWeek ==
    \A c \in Callers : res[c].op = "get_previous_week_end" =>
       LET days == GetWeekTradingDays(res[c].week_end)
           prev_days == GetWeekTradingDays(res[c].ret)
       IN /\ Weekday(res[c].ret) = 4
          /\ \A i \in 1..Len(days) : res[c].ret < days[i]
          /\ \A i \in 1..Len(days), j \in 1..Len(prev_days) : days[i] # prev_days[j]

\* C28: during the migration a parquet/meta pair is deleted only after its
\* migration succeeded or when it had expired: whenever a pair that is not
\* expired is deleted, the cache holds its table, unexpired, under the file's
\* stem as key.
C28_DeletedOnlyWhenMigrated ==
    [][\A stem \in (DOMAIN files) \ (DOMAIN files') :
          LET f == files[stem]
              expires_at == IF f.meta # NoMeta THEN f.meta.val ELSE now + Hours(24)
          IN now < expires_at =>
                \E row \in RowsFor(entries', SanitizeKey(stem)) :
                   /\ CanDeserialize(row.data)
                   /\ DeserializeDataframe(row.data) = f.tbl
                   /\ ~IsExpiredAt(row, now)]_vars

\* C29: the lazy deletion of a get that found an expired or undecodable row
\* removes nothing but the row it found: a row committed under the key by a
\* concurrent set between the get's SELECT and its DELETE is still held
\* when the get returns.
C29_LazyDeletionSparesConcurrentSet ==
    \A c \in Callers :
        (res[c].op = "get" /\ res[c].why \in {"expired", "undecodable"}) =>
            (res[c].pre \ res[c].post) \subseteq res[c].seen

\* A fetch has been answered in this step with a table of no rows: the
\* request failed, its reply could not be processed, or it held no rows.
FetchEndsEmpty(c) ==
    /\ pc[c] = "fetch_call" /\ pc'[c] = "idle"
    /\ res'[c].op = "fetch" /\ Len(res'[c].ret) = 0

\* C30: a fetch that fails or returns no rows, with or without
\* force_refresh, creates and overwrites no cache entry, and the only rows
\* it removes are those its own cache lookup (made without force_refresh)
\* found expired or undecodable; every other row, so every table a later
\* fetch without force_refresh can return, is kept.
C30_FailedFetchKeepsUsableEntries ==
    [][\A c \in Callers :
          /\ (pc[c] = "idle" /\ pc'[c] = "fetch_rate") =>
                /\ entries' \subseteq entries
                /\ \A row \in entries \ entries' :
                      IsExpiredAt(row, now) \/ ~CanDeserialize(row.data)
                /\ loc'[c].evicted = entries \ entries'
                /\ loc'[c].force => entries' = entries
          /\ FetchEndsEmpty(c) => entries' = entries]_vars

\* A forced fetch failed (the client raised) while the key held an unexpired,
\* decodable table, which is still held.
C30_Witness ==
    \E c \in Callers :
        /\ pc[c] = "idle" /\ res[c].op = "fetch" /\ res[c].force
        /\ res[c].reply.kind = "raise" /\ res[c].calls = 1 /\ Len(res[c].ret) = 0
        /\ \E row \in RowsFor(entries, SanitizeKey(res[c].key)) :
              ~IsExpiredAt(row, now) /\ CanDeserialize(row.data)

\* C30 as stated: a fetch that fails or returns no rows leaves the cache
\* unchanged, no entry being created, overwritten or removed by it.
C30_FailedFetchLeavesCacheUnchanged ==
    [][\A c \in Callers :
          FetchEndsEmpty(c) => entries' = entries /\ res'[c].evicted = {}]_vars

====
